---------------------------- MODULE Spec2Model ----------------------------
(***************************************************************************)
(* A model of the memory-and-response pipeline of May                      *)
(* (src/core/memory_database.py) and of the transports that drive it       *)
(* (the HTTP and WebSocket endpoints of the same file, the Telegram bot of *)
(* src/core/telegram_bot.py).                                              *)
(*                                                                         *)
(* Text is modelled as a sequence of one-character strings, so that        *)
(* str.lower(), `in` (substring search), str.split() and SQL LIKE are      *)
(* computed as the code computes them.  A message is held in the state as  *)
(* a sequence of tokens; Text(m) is its text, the tokens joined by single  *)
(* spaces.                                                                 *)
(***************************************************************************)
EXTENDS Integers, Sequences, FiniteSets, TLC

VARIABLES
    conversations,   \* the conversations table, in rowid (insertion) order
    user_profile,    \* the user_profile table: name -> row
    profile,         \* per engine instance: self.user_profile (NoProfile = None)
    pc,              \* per engine instance: position inside chat_with_may
    cur,             \* per engine instance: the locals of the call in progress
    last,            \* the last message handled: what the call gave, what was sent
    now,             \* the wall clock read by datetime.now()
    handled,         \* history: profile name -> topics of the handled messages
    probe,           \* the last direct application of a pure function
    knowledge,       \* rows of the table knowledge, in the order of their ids
    knowledge_seq,   \* the greatest id the table knowledge has given out
    trusted_sources,    \* rows of the table trusted_sources, in the order of ids
    learning_sessions,  \* rows of the table learning_sessions; the id is the index
    learning_active,    \* may_engine.learning_active
    tasks,           \* the learn_from_web tasks /start_learning created
    fetched          \* history: the pages requested, in order

\* The state of the learning engine.
crawl == <<trusted_sources, learning_sessions, learning_active, tasks, fetched>>

learning == <<knowledge, knowledge_seq, crawl>>

vars == <<conversations, user_profile, profile, pc, cur, last, now, handled,
          probe, learning>>

(***************************************************************************)
(* Bounds of the model.                                                    *)
(***************************************************************************)
MaxWords == 3
MaxTurns == 2
MaxTime == 1
MaxLimit == 2
MaxProbeRows == 3
\* Clock readings in one day.
TicksPerDay == 2
\* Rows the learning engine stores.
MaxStores == 3

(***************************************************************************)
(* Character tables.                                                       *)
(***************************************************************************)
positive_words ==
    << <<"h", "a", "p", "p", "y">>,
       <<"g", "o", "o", "d">>,
       <<"g", "r", "e", "a", "t">>,
       <<"l", "o", "v", "e">>,
       <<"w", "o", "n", "d", "e", "r", "f", "u", "l">>,
       <<"e", "x", "c", "i", "t", "e", "d">>,
       <<"a", "m", "a", "z", "i", "n", "g">> >>

negative_words ==
    << <<"s", "a", "d">>,
       <<"b", "a", "d">>,
       <<"t", "e", "r", "r", "i", "b", "l", "e">>,
       <<"h", "a", "t", "e">>,
       <<"a", "w", "f", "u", "l">>,
       <<"a", "n", "g", "r", "y">>,
       <<"f", "r", "u", "s", "t", "r", "a", "t", "e", "d">> >>

keywords_family ==
    << <<"f", "a", "m", "i", "l", "y">>,
       <<"m", "o", "m">>,
       <<"d", "a", "d">>,
       <<"s", "i", "s", "t", "e", "r">>,
       <<"b", "r", "o", "t", "h", "e", "r">>,
       <<"p", "a", "r", "e", "n", "t">>,
       <<"c", "h", "i", "l", "d">> >>

keywords_work ==
    << <<"j", "o", "b">>,
       <<"w", "o", "r", "k">>,
       <<"c", "a", "r", "e", "e", "r">>,
       <<"b", "o", "s", "s">>,
       <<"c", "o", "l", "l", "e", "a", "g", "u", "e">>,
       <<"p", "r", "o", "j", "e", "c", "t">> >>

keywords_learning ==
    << <<"l", "e", "a", "r", "n">>,
       <<"s", "t", "u", "d", "y">>,
       <<"s", "c", "h", "o", "o", "l">>,
       <<"e", "d", "u", "c", "a", "t", "i", "o", "n">>,
       <<"k", "n", "o", "w", "l", "e", "d", "g", "e">> >>

keywords_faith ==
    << <<"g", "o", "d">>,
       <<"p", "r", "a", "y", "e", "r">>,
       <<"f", "a", "i", "t", "h">>,
       <<"b", "e", "l", "i", "e", "f">>,
       <<"c", "h", "u", "r", "c", "h">>,
       <<"s", "p", "i", "r", "i", "t", "u", "a", "l">> >>

keywords_relationships ==
    << <<"f", "r", "i", "e", "n", "d">>,
       <<"r", "e", "l", "a", "t", "i", "o", "n", "s", "h", "i", "p">>,
       <<"l", "o", "v", "e">>,
       <<"d", "a", "t", "i", "n", "g">>,
       <<"m", "a", "r", "r", "i", "a", "g", "e">> >>

keywords_health ==
    << <<"h", "e", "a", "l", "t", "h">>,
       <<"s", "i", "c", "k">>,
       <<"d", "o", "c", "t", "o", "r">>,
       <<"e", "x", "e", "r", "c", "i", "s", "e">>,
       <<"w", "e", "l", "l", "n", "e", "s", "s">> >>

LabelChars ==
    ("family" :> <<"f", "a", "m", "i", "l", "y">>)
    @@ ("work" :> <<"w", "o", "r", "k">>)
    @@ ("learning" :> <<"l", "e", "a", "r", "n", "i", "n", "g">>)
    @@ ("faith" :> <<"f", "a", "i", "t", "h">>)
    @@ ("relationships" :> <<"r", "e", "l", "a", "t", "i", "o", "n", "s", "h", "i", "p", "s">>)
    @@ ("health" :> <<"h", "e", "a", "l", "t", "h">>)
    @@ ("general" :> <<"g", "e", "n", "e", "r", "a", "l">>)

TokenChars ==
    ("" :> <<>>)
    @@ ("x" :> <<"x">>)
    @@ ("?" :> <<"?">>)
    @@ ("mom" :> <<"m", "o", "m">>)
    @@ ("job" :> <<"j", "o", "b">>)
    @@ ("happy" :> <<"h", "a", "p", "p", "y">>)
    @@ ("HAPPY" :> <<"H", "A", "P", "P", "Y">>)
    @@ ("sad" :> <<"s", "a", "d">>)
    @@ ("bad" :> <<"b", "a", "d">>)
    @@ ("love" :> <<"l", "o", "v", "e">>)
    @@ ("whatever" :> <<"w", "h", "a", "t", "e", "v", "e", "r">>)
    @@ ("Sick?" :> <<"S", "i", "c", "k", "?">>)

LowerOf ==
    ("A" :> "a") @@ ("B" :> "b") @@ ("C" :> "c") @@ ("D" :> "d") @@ ("E" :> "e") @@ ("F" :> "f")
    @@ ("G" :> "g") @@ ("H" :> "h") @@ ("I" :> "i") @@ ("J" :> "j") @@ ("K" :> "k") @@ ("L" :> "l")
    @@ ("M" :> "m") @@ ("N" :> "n") @@ ("O" :> "o") @@ ("P" :> "p") @@ ("Q" :> "q") @@ ("R" :> "r")
    @@ ("S" :> "s") @@ ("T" :> "t") @@ ("U" :> "u") @@ ("V" :> "v") @@ ("W" :> "w") @@ ("X" :> "x")
    @@ ("Y" :> "y") @@ ("Z" :> "z")

Whitespace == {" ", "\t", "\n"}

\* str.lower() on one character.
LowerChar(c) == IF c \in DOMAIN LowerOf THEN LowerOf[c] ELSE c

\* str.lower()
Lower(s) == [i \in 1..Len(s) |-> LowerChar(s[i])]

\* Python's `w in s` on strings: w occurs in s as a contiguous substring.
Contains(s, w) ==
    \E i \in 1..(Len(s) - Len(w) + 1) : SubSeq(s, i, i + Len(w) - 1) = w

\* " ".join(tokens), each token given by its characters.
RECURSIVE JoinChars(_)
JoinChars(toks) ==
    IF toks = << >> THEN << >>
    ELSE IF Len(toks) = 1 THEN TokenChars[toks[1]]
    ELSE TokenChars[toks[1]] \o <<" ">> \o JoinChars(Tail(toks))

\* The text of a message.
Text(m) == JoinChars(m)

\* len(message.split()): str.split() without arguments cuts at every run of
\* whitespace and drops empty pieces; a scan that counts the pieces it closes.
RECURSIVE SplitCount(_, _)
SplitCount(s, inWord) ==
    IF s = << >> THEN (IF inWord THEN 1 ELSE 0)
    ELSE IF Head(s) \in Whitespace
         THEN (IF inWord THEN 1 ELSE 0) + SplitCount(Tail(s), FALSE)
         ELSE SplitCount(Tail(s), TRUE)

\* sum(1 for word in words if word in text)
RECURSIVE CountPresent(_, _)
CountPresent(words, text) ==
    IF words = << >> THEN 0
    ELSE (IF Contains(text, Head(words)) THEN 1 ELSE 0)
         + CountPresent(Tail(words), text)

(***************************************************************************)
(* Signal extractor.                                                       *)
(***************************************************************************)
SentimentGe(pos_count, neg_count) ==
    IF pos_count >= neg_count THEN "positive"
    ELSE IF neg_count > pos_count THEN "negative"
    ELSE "neutral"

SentimentOfCounts(pos_count, neg_count) ==
    IF pos_count > neg_count THEN "positive"
    ELSE IF neg_count > pos_count THEN "negative"
    ELSE "neutral"

analyze_message_sentiment(text) ==
    LET message_lower == Lower(text)
        pos_count == CountPresent(positive_words, message_lower)
        neg_count == CountPresent(negative_words, message_lower)
    IN  SentimentOfCounts(pos_count, neg_count)

\* topic_keywords, a dict: iterated in insertion order.
topic_keywords ==
    << <<"family", keywords_family>>,
       <<"work", keywords_work>>,
       <<"learning", keywords_learning>>,
       <<"faith", keywords_faith>>,
       <<"relationships", keywords_relationships>>,
       <<"health", keywords_health>> >>

\* The loop of extract_topics over topic_keywords.items().
RECURSIVE MatchTopics(_, _)
MatchTopics(items, message_lower) ==
    IF items = << >> THEN << >>
    ELSE LET topic == Head(items)[1]
             keywords == Head(items)[2]
             rest == MatchTopics(Tail(items), message_lower)
         IN  IF \E k \in 1..Len(keywords) : Contains(message_lower, keywords[k])
             THEN <<topic>> \o rest
             ELSE rest

TopicsNoDefault(topics) == topics

\* `topics or ["general"]`
TopicsOrGeneral(topics) == IF topics = << >> THEN <<"general">> ELSE topics

extract_topics(text) == TopicsOrGeneral(MatchTopics(topic_keywords, Lower(text)))

(***************************************************************************)
(* Importance scorer.                                                      *)
(***************************************************************************)
BaseImportance == 5
LongMessageWords == 20
MinImportance == 1
MaxImportance == 10

personal_topics == {"family", "faith", "relationships", "health"}

Min2(a, b) == IF a < b THEN a ELSE b
Max2(a, b) == IF a > b THEN a ELSE b

NoClamp(importance) == importance

\* min(10, max(1, importance))
Clamp(importance) == Min2(MaxImportance, Max2(MinImportance, importance))

(***************************************************************************)
(* The messages of the model, and what the code computes from their text,  *)
(* tabulated once.                                                         *)
(***************************************************************************)
\* The tokens short messages are made of.
Tokens == {"", "?", "mom", "job", "happy", "HAPPY", "sad", "whatever", "love"}

SeqsUpTo(S, n) == UNION {[1..k -> S] : k \in 0..n}

\* Messages around the length the scorer asks about: 20 and 21 words, with
\* and without a question mark.
LongMessages ==
    {[i \in 1..n |-> "x"] : n \in {LongMessageWords, LongMessageWords + 1}}
    \cup {[i \in 1..n |-> IF i = n THEN "?" ELSE "x"] :
             n \in {LongMessageWords, LongMessageWords + 1}}

Messages == SeqsUpTo(Tokens, MaxWords) \cup LongMessages

\* (f @@ << >> is f, held as an explicit table.)
MessageFacts ==
    [m \in Messages |->
        LET text == Text(m)
        IN  [topics |-> extract_topics(text),
             sentiment |-> analyze_message_sentiment(text),
             question |-> Contains(text, <<"?">>),
             words |-> SplitCount(text, FALSE)]] @@ << >>

\* self.extract_topics(message)
TopicsOf(m) == MessageFacts[m].topics

\* self.analyze_message_sentiment(message)
SentimentOf(m) == MessageFacts[m].sentiment

calculate_importance(m, topics, sentiment) ==
    LET i0 == BaseImportance
        i1 == IF sentiment \in {"positive", "negative"} THEN i0 + 2 ELSE i0
        i2 == IF \E k \in 1..Len(topics) : topics[k] \in personal_topics
              THEN i1 + 2 ELSE i1
        \* "?" in message
        i3 == IF MessageFacts[m].question THEN i2 + 1 ELSE i2
        \* len(message.split()) > 20
        i4 == IF MessageFacts[m].words > LongMessageWords THEN i3 + 1 ELSE i3
    IN  Clamp(i4)
(***************************************************************************)
(* Values.                                                                 *)
(***************************************************************************)
\* Python's None where a list is expected (a value of the same shape as a list).
None == <<"None">>

\* The rows initialize_trusted_sources inserts (three of the six): domain,
\* topic_categories, trust_level; active takes its default 1.
default_sources ==
    <<[domain |-> "en.wikipedia.org",
       topic_categories |-> <<"general", "science", "technology">>,
       trust_level |-> 9, active |-> 1],
      [domain |-> "stackoverflow.com",
       topic_categories |-> <<"programming", "technology">>,
       trust_level |-> 8, active |-> 1],
      [domain |-> "arxiv.org",
       topic_categories |-> <<"science", "mathematics", "ai">>,
       trust_level |-> 10, active |-> 1]>>

\* A message that is not text: the WebSocket endpoint passes on whatever JSON
\* value stands under "message" (null, a number).
NotText == <<"\\not-a-str">>

\* self.user_profile = None
NoProfile == [name |-> "None"]

\* No reply: a reply of no clauses.
NoReply == [callback |-> << >>,
            core |-> [opener |-> [kind |-> "none", idx |-> 0],
                      template |-> [pool |-> "none", idx |-> 0]],
            spark |-> 0]

Range(s) == {s[i] : i \in 1..Len(s)}

Take(s, n) == SubSeq(s, 1, Min2(n, Len(s)))

NoDuplicates(s) == \A i, j \in 1..Len(s) : i # j => s[i] # s[j]

(***************************************************************************)
(* Memory store: the conversations table.                                  *)
(***************************************************************************)
\* json.dumps of a list of labels: ["family", "work"]
RECURSIVE JsonItems(_)
JsonItems(tags) ==
    IF tags = << >> THEN << >>
    ELSE <<"\"">> \o LabelChars[Head(tags)] \o <<"\"">>
         \o (IF Len(tags) > 1 THEN <<",", " ">> ELSE << >>)
         \o JsonItems(Tail(tags))

json_dumps(tags) == <<"[">> \o JsonItems(tags) \o <<"]">>

\* SQL `column LIKE '%pattern%'` (LIKE ignores the case of ASCII letters).
Like(column, pattern) == Contains(Lower(column), Lower(pattern))

\* WHERE topic = ? OR context_tags LIKE ?
RowMatches(row, topic) ==
    \/ row.topic = topic
    \/ Like(json_dumps(row.context_tags), LabelChars[topic])

\* ORDER BY importance DESC, timestamp DESC: a may stand before b.
MayPrecede(a, b) ==
    \/ a.importance > b.importance
    \/ a.importance = b.importance /\ a.timestamp >= b.timestamp

\* The results a SELECT ... ORDER BY ... LIMIT may give: rows that sort equal
\* come in an order SQL leaves open.
QueryResults(rows, topic, limit) ==
    LET S == {i \in 1..Len(rows) : RowMatches(rows[i], topic)}
        n == Cardinality(S)
        orders == {p \in [1..n -> S] :
                     /\ \A i, j \in 1..n : i # j => p[i] # p[j]
                     /\ \A i \in 1..(n - 1) : MayPrecede(rows[p[i]], rows[p[i + 1]])}
    IN  {Take([i \in 1..n |-> rows[p[i]]], limit) : p \in orders}

\* The label spelled by a sequence of characters.
LabelNamed(chars) == CHOOSE t \in DOMAIN LabelChars : LabelChars[t] = chars

\* json.loads of the text of a list of labels: the strings between quotes.
RECURSIVE ParseItems(_, _, _)
ParseItems(text, inString, word) ==
    IF text = << >> THEN << >>
    ELSE IF Head(text) = "\""
         THEN (IF inString
               THEN <<LabelNamed(word)>> \o ParseItems(Tail(text), FALSE, << >>)
               ELSE ParseItems(Tail(text), TRUE, << >>))
         ELSE IF inString
              THEN ParseItems(Tail(text), TRUE, Append(word, Head(text)))
              ELSE ParseItems(Tail(text), FALSE, << >>)

json_loads(text) == ParseItems(text, FALSE, << >>)

\* datetime.isoformat(): the date, then the time of day.
isoformat(t) == <<t \div TicksPerDay, t % TicksPerDay>>

\* datetime.fromisoformat(text)
fromisoformat(text) == text[1] * TicksPerDay + text[2]

\* ConversationMemory(...) built from a fetched row: the timestamp and the
\* context tags are parsed from their stored text, a NULL column reads as [].
RowToMemory(row) ==
    [row EXCEPT !.timestamp = fromisoformat(isoformat(row.timestamp)),
                !.context_tags = json_loads(json_dumps(row.context_tags)),
                !.referenced_memories =
                    IF row.referenced_memories = None THEN << >>
                    ELSE row.referenced_memories]

RECURSIVE TopicResults(_, _, _)
TopicResults(rows, topics, limit) ==
    IF topics = << >> THEN {<< >>}
    ELSE {a \o b : a \in QueryResults(rows, Head(topics), limit),
                   b \in TopicResults(rows, Tail(topics), limit)}

TruncatePadded(memories, limit) ==
    [i \in 1..limit |-> IF i <= Len(memories) THEN memories[i] ELSE None]

TruncateNone(memories, limit) == memories

\* relevant_memories[:limit]
Truncate(memories, limit) == Take(memories, limit)

\* The lists find_relevant_memories may return.
find_relevant_memories(rows, m, limit) ==
    {Truncate([i \in 1..Len(ms) |-> RowToMemory(ms[i])], limit) :
        ms \in TopicResults(rows, TopicsOf(m), limit)}

DefaultLimit == 3

(***************************************************************************)
(* Response composer.                                                      *)
(***************************************************************************)
CallbackPercent == 40
SparkPercent == 30
\* (datetime.now() - memory.timestamp).days: whole days, rounded down.
DaysAgo(t, timestamp) == (t - timestamp) \div TicksPerDay

TimeRef(days_ago) ==
    IF days_ago = 0 THEN [phrase |-> "earlier today", n |-> 0]
    ELSE IF days_ago = 1 THEN [phrase |-> "yesterday", n |-> 0]
    ELSE IF days_ago < 7 THEN [phrase |-> "{n} days ago", n |-> days_ago]
    ELSE [phrase |-> "recently", n |-> 0]

responses_by_topic == {"family", "faith", "work", "learning"}

CoreResponseAnyTopic(sentiment, topics, draws) ==
    LET known == SelectSeq(topics, LAMBDA t : t \in responses_by_topic)
        pool == IF known # << >> THEN known[1] ELSE "generic"
        base == [pool |-> pool, idx |-> draws.template]
    IN  IF sentiment = "negative"
        THEN [opener |-> [kind |-> "supportive", idx |-> draws.opener],
              template |-> base]
        ELSE IF sentiment = "positive"
        THEN [opener |-> [kind |-> "encouraging", idx |-> draws.opener],
              template |-> base]
        ELSE [opener |-> [kind |-> "none", idx |-> 0], template |-> base]

\* A core clause: the opener (none, or one of three of its kind) and the
\* template (its pool and its index in the pool).
generate_core_response(sentiment, topics, draws) ==
    LET primary_topic == IF topics # << >> THEN topics[1] ELSE "general"
        pool == IF primary_topic \in responses_by_topic
                THEN primary_topic ELSE "generic"
        base == [pool |-> pool, idx |-> draws.template]
    IN  IF sentiment = "negative"
        THEN [opener |-> [kind |-> "supportive", idx |-> draws.opener],
              template |-> base]
        ELSE IF sentiment = "positive"
        THEN [opener |-> [kind |-> "encouraging", idx |-> draws.opener],
              template |-> base]
        ELSE [opener |-> [kind |-> "none", idx |-> 0], template |-> base]

\* `relevant_memories and random.random() < 0.4`
UseCallback(relevant_memories, draw) ==
    relevant_memories # << >> /\ draw < CallbackPercent

UseSparkUpTo(draw) == draw <= SparkPercent

\* `random.random() < 0.3`
UseSpark(draw) == draw < SparkPercent

\* The reply, by its clauses: response_parts before " ".join(...).strip().
\* callback is a list of no or one clause, spark the index drawn or 0.
generate_thoughtful_response(m, relevant_memories, t, draws) ==
    LET sentiment == SentimentOf(m)
        topics == TopicsOf(m)
        callback ==
            IF UseCallback(relevant_memories, draws.callback)
            THEN LET memory == relevant_memories[1]
                 IN  <<[topic |-> memory.topic,
                        time_ref |-> TimeRef(DaysAgo(t, memory.timestamp))]>>
            ELSE << >>
        spark == IF UseSpark(draws.spark) THEN draws.sparkidx ELSE 0
    IN  [callback |-> callback,
         core |-> generate_core_response(sentiment, topics, draws),
         spark |-> spark]

\* The text of a reply, as a sequence of pieces: a piece is one space, or a
\* run of text that neither starts nor ends with white space (a fixed phrase,
\* a template of a pool by its index, a label, a number).
Piece(kind, of, idx) == [kind |-> kind, of |-> of, idx |-> idx]

Space == Piece("space", " ", 0)

\* f"This reminds me of when you mentioned {memory.topic} {time_ref}. "
CallbackText(clause) ==
    <<Piece("text", "This reminds me of when you mentioned", 0), Space,
      Piece("topic", clause.topic, 0), Space>>
    \o (IF clause.time_ref.phrase = "{n} days ago"
        THEN <<Piece("number", "days_ago", clause.time_ref.n), Space,
               Piece("text", "days ago", 0)>>
        ELSE <<Piece("text", clause.time_ref.phrase, 0)>>)
    \o <<Piece("text", ".", 0), Space>>

\* random.choice(starters) + random.choice(base_responses): a starter ends
\* with a space.
CoreText(core) ==
    (IF core.opener.kind = "none" THEN << >>
     ELSE <<Piece("opener", core.opener.kind, core.opener.idx), Space>>)
    \o <<Piece("template", core.template.pool, core.template.idx)>>

SparkText(spark) == <<Piece("spark", "sparks", spark)>>

\* response_parts
ResponseParts(reply) ==
    (IF reply.callback # << >> THEN <<CallbackText(reply.callback[1])>> ELSE << >>)
    \o <<CoreText(reply.core)>>
    \o (IF reply.spark # 0 THEN <<SparkText(reply.spark)>> ELSE << >>)

\* " ".join(parts)
RECURSIVE JoinParts(_)
JoinParts(parts) ==
    IF parts = << >> THEN << >>
    ELSE IF Len(parts) = 1 THEN parts[1]
    ELSE parts[1] \o <<Space>> \o JoinParts(Tail(parts))

RECURSIVE StripLeft(_)
StripLeft(text) ==
    IF text # << >> /\ Head(text) = Space THEN StripLeft(Tail(text)) ELSE text

RECURSIVE StripRight(_)
StripRight(text) ==
    IF text # << >> /\ text[Len(text)] = Space
    THEN StripRight(SubSeq(text, 1, Len(text) - 1)) ELSE text

\* str.strip()
Strip(text) == StripLeft(StripRight(text))

\* " ".join(response_parts).strip(): the string generate_thoughtful_response
\* returns.
ResponseText(reply) == Strip(JoinParts(ResponseParts(reply)))

(***************************************************************************)
(* save_conversation.                                                      *)
(***************************************************************************)
\* sha256(f"{user_message}{may_response}{datetime.now()}").hexdigest()[:16]:
\* the digest is held as the triple it is computed from.
MemoryId(user_message, may_response, t) == <<user_message, may_response, t>>

NewMemoryNoReply(user_message, may_response, t_id, t_ts) ==
    [id |-> MemoryId(user_message, may_response, t_id),
     user_message |-> user_message,
     may_response |-> NoReply,
     topic |-> "general",
     sentiment |-> "neutral",
     importance |-> BaseImportance,
     timestamp |-> t_ts,
     context_tags |-> <<"general">>,
     referenced_memories |-> None]

NewMemoryLastTopic(user_message, may_response, t_id, t_ts) ==
    LET topics == TopicsOf(user_message)
        sentiment == SentimentOf(user_message)
    IN  [id |-> MemoryId(user_message, may_response, t_id),
         user_message |-> user_message,
         may_response |-> may_response,
         topic |-> IF topics # << >> THEN topics[Len(topics)] ELSE "general",
         sentiment |-> sentiment,
         importance |-> calculate_importance(user_message, topics, sentiment),
         timestamp |-> t_ts,
         context_tags |-> topics,
         referenced_memories |-> None]

\* The ConversationMemory save_conversation builds; t_id and t_ts are its two
\* readings of the clock.
NewMemory(user_message, may_response, t_id, t_ts) ==
    LET topics == TopicsOf(user_message)
        sentiment == SentimentOf(user_message)
        importance == calculate_importance(user_message, topics, sentiment)
    IN  [id |-> MemoryId(user_message, may_response, t_id),
         user_message |-> user_message,
         may_response |-> may_response,
         topic |-> IF topics # << >> THEN topics[1] ELSE "general",
         sentiment |-> sentiment,
         importance |-> importance,
         timestamp |-> t_ts,
         context_tags |-> topics,
         referenced_memories |-> None]

InsertOrReplace(rows, memory) ==
    [error |-> "ok",
     rows |-> SelectSeq(rows, LAMBDA r : r.id # memory.id) \o <<memory>>]

\* INSERT INTO conversations (...): the row is added (the column
\* referenced_memories is not given and stays NULL), unless its id is taken:
\* id is the PRIMARY KEY, and a plain INSERT of a taken id is refused.
Insert(rows, memory) ==
    IF \E i \in 1..Len(rows) : rows[i].id = memory.id
    THEN [error |-> "sqlite3.IntegrityError", rows |-> rows]
    ELSE [error |-> "ok", rows |-> Append(rows, memory)]
(***************************************************************************)
(* User profile.                                                           *)
(***************************************************************************)
Names == {"Al"}

\* UserProfile(...) built from a fetched row: the lists and the time are parsed
\* from their stored text.
RowToProfile(row) ==
    [row EXCEPT !.interests = json_loads(json_dumps(row.interests)),
                !.values = json_loads(json_dumps(row.values)),
                !.last_interaction = fromisoformat(isoformat(row.last_interaction))]

\* cursor.fetchone() of SELECT * FROM user_profile LIMIT 1, as a UserProfile:
\* any row of the table, None when it has no row.
load_user_profile(tbl) ==
    IF DOMAIN tbl = {} THEN {NoProfile} ELSE {RowToProfile(tbl[n]) : n \in DOMAIN tbl}

\* A write of name, interests and last_interaction alone: the columns it does
\* not name take their defaults.
SaveDefaults(tbl, p) ==
    [n \in DOMAIN tbl \cup {p.name} |->
        IF n = p.name
        THEN [p EXCEPT !.values = << >>, !.conversation_patterns = {},
                       !.relationship_level = 1]
        ELSE tbl[n]]

\* INSERT OR REPLACE INTO user_profile: the whole row under the profile's name.
\* (The statement and the CREATE TABLE of init_memory_database spell the
\* column `values` as the keyword VALUES; an engine that rejects it raises
\* sqlite3.OperationalError, the failing outcome of the steps that run it.)
save_user_profile(tbl, p) ==
    [n \in DOMAIN tbl \cup {p.name} |-> IF n = p.name THEN p ELSE tbl[n]]

\* for topic in topics: if topic not in interests: interests.append(topic)
RECURSIVE AppendNew(_, _)
AppendNew(interests, topics) ==
    IF topics = << >> THEN interests
    ELSE AppendNew(IF Head(topics) \in Range(interests)
                   THEN interests ELSE Append(interests, Head(topics)),
                   Tail(topics))

ReplaceInterests(p, topics, t) ==
    [p EXCEPT !.last_interaction = t, !.interests = topics]

UpdateInterestsOnly(p, topics, t) ==
    [p EXCEPT !.interests = AppendNew(@, topics)]

\* The in-place update of self.user_profile in chat_with_may.
UpdateProfile(p, topics, t) ==
    [p EXCEPT !.last_interaction = t, !.interests = AppendNew(@, topics)]

(***************************************************************************)
(* Engine instances and transports.                                        *)
(***************************************************************************)
\* may = MayConversationalAI() of the web process; self.may of the bot.
Engines == {"web", "bot"}

Transports == {"http", "ws", "telegram"}

EngineOf(t) == IF t = "telegram" THEN "bot" ELSE "web"

\* The messages the transports hand over in this model: a form field is text,
\* the "message" of a WebSocket frame is any JSON value, a Telegram text is
\* not empty.
HttpMessages == {<< >>, <<"mom">>}

WsMessages == {<<"mom">>, NotText}

BotMessages == {<<"mom">>}

\* The draws of random.random() (in percent) and random.choice (an index).
ChatDraws ==
    {[callback |-> c, opener |-> 1, template |-> 2, spark |-> 10, sparkidx |-> 6] :
        c \in {10, 50}}

\* The profile rows a store may hold when the processes start.
InitialInterests == {<<"work">>}

InitialProfile(interests) ==
    [name |-> "Al", interests |-> interests, values |-> <<"faith">>,
     conversation_patterns |-> {<<"question", 2>>}, last_interaction |-> 0,
     relationship_level |-> 3]

NoTurn == << << >>, NoReply, -1 >>

NoCall == [transport |-> "none", user_message |-> << >>, response |-> NoReply,
           history |-> << >>, turn |-> NoTurn, steps |-> << >>]

\* outcome: what chat_with_may gave its caller ("reply", "apology", "raised";
\* "no_call" when it was not called); sent: what the transport sent back.
\* error: the cause the except clause logged; turn: the id of the row the call
\* inserted; steps: what the call did, in order.
NoLast == [transport |-> "none", outcome |-> "none", sent |-> "none",
           response |-> NoReply, error |-> "ok", turn |-> NoTurn, steps |-> << >>]

NoProbe == [op |-> "none"]

\* What a step of a call may raise.
StorageOutcomes == {"ok", "sqlite3.OperationalError"}

CaughtSqliteOnly(exc) ==
    exc \in {"sqlite3.OperationalError", "sqlite3.IntegrityError"}

\* `except Exception`: every exception a step raises derives from Exception.
Caught(exc) ==
    exc \in {"sqlite3.OperationalError", "sqlite3.IntegrityError", "AttributeError"}

InFlight == Cardinality({e \in Engines : pc[e] # "idle"})

Init ==
    /\ conversations = << >>
    /\ user_profile \in
         {<< >>} \cup {[n \in Names |-> InitialProfile(i)] : i \in InitialInterests}
    /\ profile \in [Engines -> load_user_profile(user_profile)]
    /\ pc = [e \in Engines |-> "idle"]
    /\ cur = [e \in Engines |-> NoCall]
    /\ last = NoLast
    /\ now = 0
    /\ handled = [n \in Names |-> {}]
    /\ probe = NoProbe
    /\ knowledge = << >>
    /\ knowledge_seq = 0
    /\ trusted_sources = default_sources
    /\ learning_sessions = << >>
    /\ learning_active = FALSE
    /\ tasks = << >>
    /\ fetched = << >>

(***************************************************************************)
(* chat_with_may, one store round trip per step.  The method has no await: *)
(* one engine instance runs one call at a time, and only the steps of the  *)
(* other process's instance come in between.                               *)
(***************************************************************************)
\* The call ends in its except clause, or the exception leaves it.
Fail(e, exc) ==
    /\ pc' = [pc EXCEPT ![e] = "idle"]
    /\ cur' = [cur EXCEPT ![e] = NoCall]
    /\ IF Caught(exc)
       THEN last' = [NoLast EXCEPT !.transport = cur[e].transport,
                                   !.outcome = "apology", !.sent = "apology",
                                   !.error = exc, !.steps = cur[e].steps]
       ELSE last' = [NoLast EXCEPT !.transport = cur[e].transport,
                                   !.outcome = "raised", !.sent = "error",
                                   !.error = exc, !.steps = cur[e].steps]

\* `return response`, and the transport sends it.
Return(e, steps) ==
    /\ pc' = [pc EXCEPT ![e] = "idle"]
    /\ cur' = [cur EXCEPT ![e] = NoCall]
    /\ last' = [NoLast EXCEPT !.transport = cur[e].transport, !.outcome = "reply",
                              !.sent = "reply", !.response = cur[e].response,
                              !.turn = cur[e].turn, !.steps = steps]

\* The transport t calls chat_with_may(m): the call is entered.
Enter(t, m) ==
    LET e == EngineOf(t) IN
    /\ pc[e] = "idle"
    /\ Len(conversations) + InFlight < MaxTurns
    /\ pc' = [pc EXCEPT ![e] = "entered"]
    /\ cur' = [cur EXCEPT ![e] = [NoCall EXCEPT !.transport = t, !.user_message = m]]
    /\ UNCHANGED <<learning, conversations, user_profile, profile, last, now, handled, probe>>

\* response = self.generate_thoughtful_response(user_message)
Generate(e) ==
    /\ pc[e] = "entered"
    /\ LET m == cur[e].user_message IN
       IF m = NotText
       THEN Fail(e, "AttributeError")
       ELSE \E out \in StorageOutcomes :
              IF out # "ok"
              THEN Fail(e, out)
              ELSE \E memories \in find_relevant_memories(conversations, m,
                                                          DefaultLimit),
                      d \in ChatDraws :
                     /\ pc' = [pc EXCEPT ![e] = "generated"]
                     /\ cur' = [cur EXCEPT ![e].history = memories,
                                   ![e].response =
                                       generate_thoughtful_response(m, memories, now, d),
                                   ![e].steps = <<"retrieve", "compose">>]
                     /\ UNCHANGED last
    /\ UNCHANGED <<learning, conversations, user_profile, profile, now, handled, probe>>

\* self.save_conversation(user_message, response)
Save(e) ==
    /\ pc[e] = "generated"
    /\ \E out \in StorageOutcomes, t_ts \in {now, Min2(now + 1, MaxTime)} :
         LET memory == NewMemory(cur[e].user_message, cur[e].response, now, t_ts)
             done == Insert(conversations, memory)
         IN
         /\ now' = t_ts
         /\ IF out # "ok"
            THEN Fail(e, out) /\ UNCHANGED conversations
            ELSE IF done.error # "ok"
            THEN Fail(e, done.error) /\ UNCHANGED conversations
            ELSE /\ conversations' = done.rows
                 /\ pc' = [pc EXCEPT ![e] = "saved"]
                 /\ cur' = [cur EXCEPT ![e].turn = memory.id,
                                       ![e].steps =
                               @ \o <<"extract", "score", "persist_turn">>]
                 /\ UNCHANGED last
    /\ UNCHANGED <<learning, user_profile, profile, handled, probe>>

\* The profile update, and `return response`.
Profile(e) ==
    /\ pc[e] = "saved"
    /\ IF profile[e] = NoProfile
       THEN Return(e, cur[e].steps) /\ UNCHANGED <<user_profile, profile, handled>>
       ELSE LET topics == TopicsOf(cur[e].user_message)
                p == UpdateProfile(profile[e], topics, now)
            IN  /\ profile' = [profile EXCEPT ![e] = p]
                /\ \E out \in StorageOutcomes :
                     IF out # "ok"
                     THEN Fail(e, out) /\ UNCHANGED <<user_profile, handled>>
                     ELSE /\ user_profile' = save_user_profile(user_profile, p)
                          /\ handled' = [handled EXCEPT ![p.name] = @ \cup Range(topics)]
                          /\ Return(e, cur[e].steps \o <<"persist_profile">>)
    /\ UNCHANGED <<learning, conversations, now, probe>>

(***************************************************************************)
(* Transports.                                                             *)
(***************************************************************************)
\* POST /chat: the form field is text.
chat_endpoint(m) == m # NotText /\ Enter("http", m)

\* /ws: message_data.get("message", "") is any JSON value.
websocket_endpoint(m) == Enter("ws", m)

\* The method handle_message calls, read as the orchestrator's entry point.
process_message(m) == m # NotText /\ Enter("telegram", m)

\* MayConversationalAI has no attribute process_message: handle_message's
\* except clause answers.
process_message_missing(m) ==
    /\ m # NotText
    /\ pc["bot"] = "idle"
    /\ last' = [NoLast EXCEPT !.transport = "telegram", !.outcome = "no_call",
                              !.sent = "bot_error", !.error = "AttributeError"]
    /\ UNCHANGED <<learning, conversations, user_profile, profile, pc, cur, now, handled, probe>>

handle_message(m) == process_message_missing(m) \/ process_message(m)

\* GET /memories: SELECT * FROM conversations ... ORDER BY timestamp DESC LIMIT ?
get_memories ==
    /\ pc["web"] = "idle"
    /\ last' = [NoLast EXCEPT !.transport = "http", !.sent = "memories"]
    /\ UNCHANGED <<learning, conversations, user_profile, profile, pc, cur, now, handled, probe>>

\* /memories of the bot: SELECT topic, user_message, timestamp, importance ...
memories_command ==
    /\ pc["bot"] = "idle"
    /\ last' = [NoLast EXCEPT !.transport = "telegram", !.sent = "memories"]
    /\ UNCHANGED <<learning, conversations, user_profile, profile, pc, cur, now, handled, probe>>

\* Time passes.
Tick ==
    /\ now < MaxTime
    /\ now' = now + 1
    /\ UNCHANGED <<learning, conversations, user_profile, profile, pc, cur, last, handled,
                   probe>>

Next ==
    \/ \E m \in HttpMessages : chat_endpoint(m)
    \/ \E m \in WsMessages : websocket_endpoint(m)
    \/ \E m \in BotMessages : handle_message(m)
    \/ \E e \in Engines : Generate(e)
    \/ \E e \in Engines : Save(e)
    \/ \E e \in Engines : Profile(e)
    \/ get_memories
    \/ memories_command
    \/ Tick

Spec == Init /\ [][Next]_vars

\* The web process alone.
WebNext ==
    \/ \E m \in HttpMessages : chat_endpoint(m)
    \/ \E m \in WsMessages : websocket_endpoint(m)
    \/ Generate("web")
    \/ Save("web")
    \/ Profile("web")
    \/ get_memories
    \/ Tick

WebSpec == Init /\ [][WebNext]_vars

(***************************************************************************)
(* The two processes with the commands of the bot and restarts.  The bot's *)
(* text handler is the one the code under src runs.                        *)
(***************************************************************************)
\* first_name of the users that send /start.
StartNames == {"Al", "Bo"}

\* /start: where a profile is to be created, the statement
\* `from may_conversational_ai import UserProfile` raises (there is no such
\* module) before any assignment; otherwise the welcome text is sent.
start_command(user_name) ==
    /\ pc["bot"] = "idle"
    /\ IF profile["bot"] = NoProfile \/ profile["bot"].name # user_name
       THEN last' = [NoLast EXCEPT !.transport = "telegram", !.outcome = "no_call",
                                   !.sent = "error",
                                   !.error = "ModuleNotFoundError"]
       ELSE last' = [NoLast EXCEPT !.transport = "telegram", !.sent = "welcome"]
    /\ UNCHANGED <<learning, conversations, user_profile, profile, pc, cur, now,
                   handled, probe>>

\* The process of engine e ends and starts again: MayConversationalAI()
\* sets self.user_profile = self.load_user_profile().
restart(e) ==
    /\ pc[e] = "idle"
    /\ \E p \in load_user_profile(user_profile) :
         profile' = [profile EXCEPT ![e] = p]
    /\ UNCHANGED <<learning, conversations, user_profile, pc, cur, last, now,
                   handled, probe>>

SystemNext ==
    \/ \E m \in HttpMessages : chat_endpoint(m)
    \/ \E m \in WsMessages : websocket_endpoint(m)
    \/ \E m \in BotMessages : process_message_missing(m)
    \/ Generate("web")
    \/ Save("web")
    \/ Profile("web")
    \/ get_memories
    \/ memories_command
    \/ \E user_name \in StartNames : start_command(user_name)
    \/ \E e \in Engines : restart(e)
    \/ Tick

SystemSpec == Init /\ [][SystemNext]_vars

(***************************************************************************)
(* The pure functions applied directly, to inputs from bounded sets.       *)
(***************************************************************************)
\* Topic lists and sentiment labels handed to calculate_importance.
ProbeTopicLists ==
    {<< >>, <<"general">>, <<"work">>, <<"work", "health">>, <<"family">>,
     <<"hobbies">>}

ProbeSentiments == {"positive", "negative", "neutral", "mixed"}

\* A store without rows and both engines idle.
EmptyStore ==
    /\ conversations = << >>
    /\ user_profile = << >>
    /\ profile = [e \in Engines |-> NoProfile]
    /\ pc = [e \in Engines |-> "idle"]
    /\ cur = [e \in Engines |-> NoCall]
    /\ last = NoLast
    /\ now = 0
    /\ handled = [n \in Names |-> {}]
    /\ knowledge = << >>
    /\ knowledge_seq = 0
    /\ trusted_sources = default_sources
    /\ learning_sessions = << >>
    /\ learning_active = FALSE
    /\ tasks = << >>
    /\ fetched = << >>

\* The arguments of one application.
FnInit ==
    /\ EmptyStore
    /\ \E m \in Messages, topics \in ProbeTopicLists, sentiment \in ProbeSentiments :
         probe = [op |-> "args", message |-> m, topics |-> topics,
                  sentiment |-> sentiment]

FnFrame ==
    UNCHANGED <<learning, conversations, user_profile, profile, pc, cur, last, now, handled>>

call_analyze_message_sentiment ==
    /\ probe.op = "args"
    /\ probe' = [op |-> "analyze_message_sentiment", message |-> probe.message,
                 result |-> SentimentOf(probe.message)]
    /\ FnFrame

call_extract_topics ==
    /\ probe.op = "args"
    /\ probe' = [op |-> "extract_topics", message |-> probe.message,
                 result |-> TopicsOf(probe.message)]
    /\ FnFrame

call_calculate_importance ==
    /\ probe.op = "args"
    /\ probe' = [op |-> "calculate_importance", message |-> probe.message,
                 topics |-> probe.topics, sentiment |-> probe.sentiment,
                 result |-> calculate_importance(probe.message, probe.topics,
                                                 probe.sentiment)]
    /\ FnFrame

\* save_conversation(message, reply) on the empty store.
save_conversation_of_args ==
    /\ probe.op = "args"
    /\ LET done == Insert(conversations, NewMemory(probe.message, NoReply, now, now))
       IN  /\ done.error = "ok"
           /\ conversations' = done.rows
    /\ probe' = [op |-> "save_conversation", message |-> probe.message]
    /\ UNCHANGED <<learning, user_profile, profile, pc, cur, last, now, handled>>

FnNext ==
    \/ call_analyze_message_sentiment
    \/ call_extract_topics
    \/ call_calculate_importance

FnSpec == FnInit /\ [][FnNext]_vars

\* One message saved at one time.
RowInit ==
    /\ EmptyStore
    /\ \E m \in Messages : probe = [op |-> "args", message |-> m]

RowTick ==
    /\ probe.op = "args"
    /\ now < MaxTime
    /\ now' = now + 1
    /\ UNCHANGED <<learning, conversations, user_profile, profile, pc, cur, last,
                   handled, probe>>

RowNext ==
    \/ save_conversation_of_args
    \/ RowTick

RowSpec == RowInit /\ [][RowNext]_vars

(***************************************************************************)
(* generate_core_response applied directly.                                *)
(***************************************************************************)
\* Topic lists handed to generate_core_response: every single label, lists of
\* two, the empty list.
CoreTopicLists ==
    {<< >>, <<"health", "work">>, <<"work", "health">>, <<"family", "faith">>}
    \cup {<<t>> : t \in DOMAIN LabelChars}

\* random.choice over a list of three.
CoreDraws == [opener : 1..3, template : 1..3]

CoreInit ==
    /\ EmptyStore
    /\ \E topics \in CoreTopicLists, sentiment \in ProbeSentiments :
         probe = [op |-> "args", topics |-> topics, sentiment |-> sentiment]

call_generate_core_response(d) ==
    /\ probe.op = "args"
    /\ probe' = [op |-> "generate_core_response", topics |-> probe.topics,
                 sentiment |-> probe.sentiment,
                 result |-> generate_core_response(probe.sentiment, probe.topics, d)]
    /\ FnFrame

CoreNext == \E d \in CoreDraws : call_generate_core_response(d)

CoreSpec == CoreInit /\ [][CoreNext]_vars

(***************************************************************************)
(* The retriever applied directly to stores that save_conversation built.  *)
(***************************************************************************)
\* The messages saved, and the messages asked about.
StoredMessages == {<<"mom">>, <<"job">>, <<"mom", "job">>}

QueryMessages == {<< >>, <<"mom">>, <<"job">>, <<"mom", "job">>}

call_save_conversation(m) ==
    /\ Len(conversations) < MaxProbeRows
    /\ LET done == Insert(conversations, NewMemory(m, NoReply, now, now))
       IN  /\ done.error = "ok"
           /\ conversations' = done.rows
    /\ probe' = NoProbe
    /\ UNCHANGED <<learning, user_profile, profile, pc, cur, last, now, handled>>

call_find_relevant_memories(m, limit) ==
    /\ probe = NoProbe
    /\ \E memories \in find_relevant_memories(conversations, m, limit) :
         probe' = [op |-> "find_relevant_memories", message |-> m, limit |-> limit,
                   result |-> memories]
    /\ FnFrame

FindTick ==
    /\ now < MaxTime
    /\ now' = now + 1
    /\ probe' = NoProbe
    /\ UNCHANGED <<learning, conversations, user_profile, profile, pc, cur, last, handled>>

FindNext ==
    \/ \E m \in StoredMessages : call_save_conversation(m)
    \/ \E m \in QueryMessages, limit \in 0..MaxLimit :
         call_find_relevant_memories(m, limit)
    \/ FindTick

FindInit ==
    /\ EmptyStore
    /\ probe = NoProbe

FindSpec == FindInit /\ [][FindNext]_vars

(***************************************************************************)
(* The composer applied directly, over stores that save_conversation       *)
(* built.  Its draws come from the random module of the process; supplied  *)
(* is the sequence a caller wants used, which the method has no parameter  *)
(* or attribute to take.                                                   *)
(***************************************************************************)
ComposeMessages == {<< >>, <<"love">>, <<"sad", "job">>}

ComposeStored == {<<"love">>, <<"mom", "love">>, <<"job">>}

\* Draws on both sides of 0.4 and of 0.3, and the ends of the pools.
ProbeDraws ==
    [callback : {39, 40}, opener : {1, 3}, template : {2}, spark : {29, 30},
     sparkidx : {1, 6}]

SuppliedDraws ==
    {[callback |-> 39, opener |-> 1, template |-> 2, spark |-> 29, sparkidx |-> 1],
     [callback |-> 40, opener |-> 3, template |-> 2, spark |-> 30, sparkidx |-> 6]}

compose_save_conversation(m) ==
    /\ Len(conversations) < MaxProbeRows - 1
    /\ LET done == Insert(conversations, NewMemory(m, NoReply, now, now))
       IN  /\ done.error = "ok"
           /\ conversations' = done.rows
    /\ probe' = NoProbe
    /\ UNCHANGED <<learning, user_profile, profile, pc, cur, last, now, handled>>

call_generate_thoughtful_response(m, supplied) ==
    /\ probe = NoProbe
    /\ \E memories \in find_relevant_memories(conversations, m, DefaultLimit),
          d \in ProbeDraws :
         probe' = [op |-> "generate_thoughtful_response", message |-> m,
                   supplied |-> supplied, draws |-> d, history |-> memories,
                   now |-> now,
                   result |-> generate_thoughtful_response(m, memories, now, d)]
    /\ FnFrame

ComposeNext ==
    \/ \E m \in ComposeStored : compose_save_conversation(m)
    \/ \E m \in ComposeMessages, supplied \in SuppliedDraws :
         call_generate_thoughtful_response(m, supplied)
    \/ FindTick

ComposeSpec == FindInit /\ [][ComposeNext]_vars

(***************************************************************************)
(* The composer over a week of clock readings.  datetime.now() is the      *)
(* local wall clock without a zone: it can be set back (the end of         *)
(* daylight saving time, a correction of the clock).                       *)
(***************************************************************************)
\* The clock readings of eight days.
ClockEnd == 8 * TicksPerDay

clock_save_conversation ==
    /\ conversations = << >>
    /\ LET done == Insert(conversations, NewMemory(<<"mom">>, NoReply, now, now))
       IN  /\ done.error = "ok"
           /\ conversations' = done.rows
    /\ probe' = NoProbe
    /\ UNCHANGED <<learning, user_profile, profile, pc, cur, last, now, handled>>

ClockTick ==
    /\ now < ClockEnd - 1
    /\ now' = now + 1
    /\ probe' = NoProbe
    /\ UNCHANGED <<learning, conversations, user_profile, profile, pc, cur, last,
                   handled>>

ClockSetBack ==
    /\ now > 0
    /\ now' = now - 1
    /\ probe' = NoProbe
    /\ UNCHANGED <<learning, conversations, user_profile, profile, pc, cur, last,
                   handled>>

ClockNext ==
    \/ clock_save_conversation
    \/ \E supplied \in SuppliedDraws :
         call_generate_thoughtful_response(<<"mom">>, supplied)
    \/ ClockTick
    \/ ClockSetBack

ClockSpec == FindInit /\ [][ClockNext]_vars

(***************************************************************************)
(* Learning engine: the table knowledge.                                   *)
(*   id INTEGER PRIMARY KEY AUTOINCREMENT, content_hash TEXT UNIQUE, ...   *)
(***************************************************************************)
\* Texts extract_meaningful_content may give, and what a crawl stores them
\* under.
Contents == {"c1", "c2"}

LearnTopics == {"ai", "faith"}

Sources == {[url |-> "https://stackoverflow.com", trust_level |-> 8],
            [url |-> "https://en.wikipedia.org", trust_level |-> 9]}

\* hashlib.sha256(content.encode()).hexdigest()
sha256(content) == <<"sha256", content>>

\* The KnowledgeNode extract_and_store_knowledge builds at time t.
KnowledgeNode(content, topic, source, t) ==
    [content_hash |-> sha256(content),
     topic |-> topic,
     content |-> content,
     source_url |-> source.url,
     confidence_score |-> <<source.trust_level, 10>>,
     learned_at |-> t,
     validation_status |-> "pending"]

\* INSERT OR REPLACE INTO knowledge (content_hash, ..., validation_status):
\* the row that holds the content hash is deleted and a new row is inserted;
\* the new row takes the next AUTOINCREMENT id, and human_approved, which the
\* statement does not name, its default 0.
ReplaceInto(rows, seq, k) ==
    LET kept == SelectSeq(rows, LAMBDA r : r.content_hash # k.content_hash)
        row == [id |-> seq + 1,
                content_hash |-> k.content_hash,
                topic |-> k.topic,
                content |-> k.content,
                source_url |-> k.source_url,
                confidence_score |-> k.confidence_score,
                learned_at |-> isoformat(k.learned_at),
                validation_status |-> k.validation_status,
                human_approved |-> 0]
    IN  [rows |-> Append(kept, row), seq |-> seq + 1]

ChatFrame ==
    UNCHANGED <<conversations, user_profile, profile, pc, cur, last, handled, probe>>

\* store_knowledge(knowledge): a failure of the statement is logged and the
\* table stays as it was.
store_knowledge(k) ==
    /\ knowledge_seq < MaxStores
    /\ \E out \in StorageOutcomes :
         IF out # "ok"
         THEN UNCHANGED <<knowledge, knowledge_seq>>
         ELSE LET done == ReplaceInto(knowledge, knowledge_seq, k)
              IN  /\ knowledge' = done.rows
                  /\ knowledge_seq' = done.seq
    /\ UNCHANGED crawl
    /\ UNCHANGED now
    /\ ChatFrame

\* UPDATE knowledge SET validation_status = 'validated', human_approved = 1
\* WHERE content_hash = ?
approve_knowledge(content_hash) ==
    /\ knowledge' = [i \in 1..Len(knowledge) |->
                       IF knowledge[i].content_hash = content_hash
                       THEN [knowledge[i] EXCEPT !.validation_status = "validated",
                                                 !.human_approved = 1]
                       ELSE knowledge[i]]
    /\ UNCHANGED <<knowledge_seq, crawl, now>>
    /\ ChatFrame

LearnTick ==
    /\ now < MaxTime
    /\ now' = now + 1
    /\ UNCHANGED learning
    /\ ChatFrame

KnowledgeNext ==
    \/ \E c \in Contents, topic \in LearnTopics, source \in Sources :
          store_knowledge(KnowledgeNode(c, topic, source, now))
    \/ \E c \in Contents : approve_knowledge(sha256(c))
    \/ LearnTick

KnowledgeSpec == FindInit /\ [][KnowledgeNext]_vars

\* ---------------------------------------------------------------------------
\* The learning engine's crawl: /start_learning, /stop_learning,
\* /add_trusted_source and the learn_from_web tasks of one engine.

MaxTasks == 2

\* The characters of the strings the crawl handles.
WordChars ==
    [x \in {"en.wikipedia.org"} |-> <<"e", "n", ".", "w", "i", "k", "i", "p", "e", "d", "i", "a", ".", "o", "r", "g">>] @@
    [x \in {"stackoverflow.com"} |-> <<"s", "t", "a", "c", "k", "o", "v", "e", "r", "f", "l", "o", "w", ".", "c", "o", "m">>] @@
    [x \in {"arxiv.org"} |-> <<"a", "r", "x", "i", "v", ".", "o", "r", "g">>] @@
    [x \in {"example.org/feed"} |-> <<"e", "x", "a", "m", "p", "l", "e", ".", "o", "r", "g", "/", "f", "e", "e", "d">>] @@
    [x \in {"general"} |-> <<"g", "e", "n", "e", "r", "a", "l">>] @@
    [x \in {"science"} |-> <<"s", "c", "i", "e", "n", "c", "e">>] @@
    [x \in {"technology"} |-> <<"t", "e", "c", "h", "n", "o", "l", "o", "g", "y">>] @@
    [x \in {"programming"} |-> <<"p", "r", "o", "g", "r", "a", "m", "m", "i", "n", "g">>] @@
    [x \in {"mathematics"} |-> <<"m", "a", "t", "h", "e", "m", "a", "t", "i", "c", "s">>] @@
    [x \in {"ai"} |-> <<"a", "i">>] @@
    [x \in {"AI"} |-> <<"A", "I">>] @@
    [x \in {"https://"} |-> <<"h", "t", "t", "p", "s", ":", "/", "/">>] @@
    [x \in {"https://en.wikipedia.org/wiki/"} |-> <<"h", "t", "t", "p", "s", ":", "/", "/", "e", "n", ".", "w", "i", "k", "i", "p", "e", "d", "i", "a", ".", "o", "r", "g", "/", "w", "i", "k", "i", "/">>] @@
    [x \in {"wikipedia"} |-> <<"w", "i", "k", "i", "p", "e", "d", "i", "a">>] @@
    [x \in {"hack"} |-> <<"h", "a", "c", "k">>] @@
    [x \in {"scam"} |-> <<"s", "c", "a", "m">>] @@
    [x \in {"www."} |-> <<"w", "w", "w", ".">>] @@ << >>

\* The topics /start_learning is called with.
SessionTopics == {"AI", "programming"}

\* The form /add_trusted_source is posted with: domain is free text.
AddedSources ==
    {[domain |-> "example.org/feed", topic_categories |-> <<"ai">>,
      trust_level |-> 9, active |-> 1]}

\* content_filters WHERE active = 1 AND filter_type = 'keyword' (two of the ten
\* rows initialize_content_filters inserts).
content_filters == {"hack", "scam"}

\* sorted(sources, key=lambda x: x.trust_level, reverse=True): a stable sort.
\* PlaceByTrust is the place of sources[i] in the result: after every source of
\* a greater trust level and after the earlier sources of its own.
PlaceByTrust(sources, i) ==
    1 + Cardinality({j \in 1..Len(sources) :
                       \/ sources[j].trust_level > sources[i].trust_level
                       \/ (j < i /\ sources[j].trust_level = sources[i].trust_level)})

SortedByTrust(sources) ==
    [k \in 1..Len(sources) |->
        sources[CHOOSE i \in 1..Len(sources) : PlaceByTrust(sources, i) = k]]

\* topic.lower() in [cat.lower() for cat in categories] or 'general' in categories
Relevant(row, topic) ==
    \/ \E i \in 1..Len(row.topic_categories) :
          Lower(WordChars[row.topic_categories[i]]) = Lower(WordChars[topic])
    \/ \E i \in 1..Len(row.topic_categories) :
          row.topic_categories[i] = "general"

get_relevant_sources(rows, topic) ==
    SortedByTrust(SelectSeq(rows, LAMBDA row : row.active = 1 /\ Relevant(row, topic)))

\* topic.replace(' ', '_')
ReplaceSpaces(s) == [i \in 1..Len(s) |-> IF s[i] = " " THEN "_" ELSE s[i]]

\* crawl_source: the one URL it hands to extract_and_store_knowledge.
base_url(source, topic) ==
    IF Contains(WordChars[source.domain], WordChars["wikipedia"])
    THEN WordChars["https://en.wikipedia.org/wiki/"] \o ReplaceSpaces(WordChars[topic])
    ELSE WordChars["https://"] \o WordChars[source.domain]

\* The host the HTTP client connects to for a URL: the authority is what
\* follows the scheme up to the first "/", "?" or "#"; the host is what
\* follows the last "@" of the authority, up to a ":".
UpTo(s, stops) ==
    IF \E i \in 1..Len(s) : s[i] \in stops
    THEN SubSeq(s, 1, (CHOOSE i \in 1..Len(s) :
                         /\ s[i] \in stops
                         /\ \A j \in 1..(i - 1) : s[j] \notin stops) - 1)
    ELSE s

AfterLast(s, c) ==
    IF \E i \in 1..Len(s) : s[i] = c
    THEN SubSeq(s, (CHOOSE i \in 1..Len(s) :
                      /\ s[i] = c
                      /\ \A j \in (i + 1)..Len(s) : s[j] # c) + 1, Len(s))
    ELSE s

HostOf(url) ==
    LET rest == SubSeq(url, Len(WordChars["https://"]) + 1, Len(url))
        authority == UpTo(rest, {"/", "?", "#"})
    IN  UpTo(AfterLast(authority, "@"), {":"})

\* The text of a page after the scripts, styles and blank runs are removed.
MinTextLen == 50

MaxContentLen == 1000

Pad(n, c) == [i \in 1..n |-> c]

PageShort == Pad(MinTextLen, "x")

PageClean == Pad(MinTextLen + 1, "x")

PageShouting == <<"H", "A", "C", "K">> \o Pad(MinTextLen, "x")

PageLong == Pad(MaxContentLen, "y") \o WordChars["scam"]

\* What session.get(url, timeout=10) gives: a response with a status and a
\* text, or an exception (a timeout, a refused connection).  The call leaves
\* allow_redirects at its default, so a 3xx answer is followed: redirected
\* says the response came from the address the server named.
Responses ==
    {[raised |-> FALSE, redirected |-> FALSE, status |-> 200, text |-> p] :
        p \in {PageShort, PageClean, PageShouting, PageLong}}
    \cup {[raised |-> FALSE, redirected |-> TRUE, status |-> 200, text |-> PageClean],
          [raised |-> FALSE, redirected |-> FALSE, status |-> 404, text |-> << >>],
          [raised |-> TRUE, redirected |-> FALSE, status |-> 0, text |-> << >>]}

\* The address a server sends the client on to: its www host.
Location(url) ==
    WordChars["https://"] \o WordChars["www."] \o
    SubSeq(url, Len(WordChars["https://"]) + 1, Len(url))

\* return text[:1000] if len(text) > 50 else ""
extract_meaningful_content(text) ==
    IF Len(text) > MinTextLen THEN Take(text, MaxContentLen) ELSE << >>

\* The check without content.lower(): the content is searched as it is.
ValidateAsTyped(content) ==
    \A keyword \in content_filters : ~Contains(content, WordChars[keyword])

\* validate_content: content.lower() holds none of the active keywords.
validate_content(content) ==
    LET content_lower == SubSeq(Lower(content), 1, Len(content))
    IN  \A keyword \in content_filters :
           ~Contains(content_lower, WordChars[keyword])

\* What extract_and_store_knowledge hands to store_knowledge for a response:
\* << >> when the status is not 200, the request raised, the content is empty
\* or the filter rejects it.
KnowledgeOf(response, url, topic, trust_level, t) ==
    IF response.raised \/ response.status # 200 THEN << >>
    ELSE LET content == extract_meaningful_content(response.text)
         IN  IF content # << >> /\ validate_content(content)
             THEN <<KnowledgeNode(content, topic,
                                  [url |-> url, trust_level |-> trust_level], t)>>
             ELSE << >>

NewTask(topic) ==
    [pc |-> "created", topic |-> topic, session |-> 0, sources |-> << >>,
     stopped |-> FALSE]

TaskIds == 1..MaxTasks

Running(t) == t.pc \in {"fetching", "sleeping"}

CrawlFrame == /\ UNCHANGED now
              /\ ChatFrame

\* POST /start_learning: 400 while learning_active; else the task is created
\* and runs later.
start_learning(topic) ==
    /\ Len(tasks) < MaxTasks
    /\ ~learning_active
    /\ tasks' = Append(tasks, NewTask(topic))
    /\ UNCHANGED <<knowledge, knowledge_seq, trusted_sources, learning_sessions,
                   learning_active, fetched>>
    /\ CrawlFrame

\* POST /stop_learning: may_engine.learning_active = False.  The field stopped
\* records, for the claims, which running tasks the request met.
stop_learning ==
    /\ learning_active' = FALSE
    /\ tasks' = [i \in 1..Len(tasks) |->
                   IF Running(tasks[i]) THEN [tasks[i] EXCEPT !.stopped = TRUE]
                   ELSE tasks[i]]
    /\ UNCHANGED <<knowledge, knowledge_seq, trusted_sources, learning_sessions,
                   fetched>>
    /\ CrawlFrame

\* POST /add_trusted_source: INSERT INTO trusted_sources; domain is UNIQUE, and
\* a second row of the same domain is answered with 400.
add_trusted_source(row) ==
    /\ \A i \in 1..Len(trusted_sources) : trusted_sources[i].domain # row.domain
    /\ trusted_sources' = Append(trusted_sources, row)
    /\ UNCHANGED <<knowledge, knowledge_seq, learning_sessions, learning_active,
                   tasks, fetched>>
    /\ CrawlFrame

\* end_learning_session(session_id), as the finally clause of task i runs it:
\* the UPDATE and then learning_active = False; a failure of the UPDATE leaves
\* the method, and the task, before the flag is reset.
end_learning_session(i, t, rows, out) ==
    IF out = "ok"
    THEN /\ learning_sessions' =
               [rows EXCEPT ![t.session].status = "completed",
                            ![t.session].end_time = isoformat(now)]
         /\ learning_active' = FALSE
         /\ tasks' = [tasks EXCEPT ![i] = [t EXCEPT !.pc = "ended"]]
    ELSE /\ learning_sessions' = rows
         /\ UNCHANGED learning_active
         /\ tasks' = [tasks EXCEPT ![i] = [t EXCEPT !.pc = "raised"]]

\* crawl_source(source, topic, max_depth) up to its request: one URL.
crawl_source(i, t) ==
    LET source == Head(t.sources)
    IN  /\ tasks' = [tasks EXCEPT ![i] = [t EXCEPT !.pc = "fetching"]]
        /\ fetched' = Append(fetched, [session |-> t.session,
                                       domain |-> source.domain,
                                       redirect |-> FALSE,
                                       url |-> base_url(source, t.topic)])

\* learn_from_web(topic) from its start to its first request: the flag check,
\* start_learning_session, get_relevant_sources, the first pass of the loop.
learn_from_web(i, out, out_end) ==
    /\ i <= Len(tasks)
    /\ tasks[i].pc = "created"
    /\ IF learning_active
       THEN /\ tasks' = [tasks EXCEPT ![i].pc = "returned"]
            /\ UNCHANGED <<learning_sessions, learning_active, fetched>>
       ELSE IF out # "ok"
       THEN /\ tasks' = [tasks EXCEPT ![i].pc = "raised"]
            /\ UNCHANGED <<learning_sessions, learning_active, fetched>>
       ELSE LET rows == Append(learning_sessions,
                               [topic |-> tasks[i].topic,
                                start_time |-> isoformat(now),
                                end_time |-> None,
                                status |-> "active"])
                t == [tasks[i] EXCEPT
                        !.session = Len(rows),
                        !.sources = get_relevant_sources(trusted_sources,
                                                         tasks[i].topic)]
            IN  IF t.sources = << >>
                THEN /\ IF out_end = "ok"
                        THEN end_learning_session(i, t, rows, out_end)
                        ELSE /\ learning_sessions' = rows
                             /\ learning_active' = TRUE
                             /\ tasks' = [tasks EXCEPT ![i] = [t EXCEPT !.pc = "raised"]]
                     /\ UNCHANGED fetched
                ELSE /\ learning_sessions' = rows
                     /\ learning_active' = TRUE
                     /\ crawl_source(i, t)
    /\ UNCHANGED <<knowledge, knowledge_seq, trusted_sources>>
    /\ CrawlFrame

\* extract_and_store_knowledge(url, topic, source) from the response on, with
\* store_knowledge, up to asyncio.sleep(2).
extract_and_store_knowledge(i, response, out) ==
    /\ i <= Len(tasks)
    /\ tasks[i].pc = "fetching"
    /\ LET source == Head(tasks[i].sources)
           k == KnowledgeOf(response, base_url(source, tasks[i].topic),
                            tasks[i].topic, source.trust_level, now)
       IN  IF k = << >> \/ out # "ok"
           THEN UNCHANGED <<knowledge, knowledge_seq>>
           ELSE LET done == ReplaceInto(knowledge, knowledge_seq, k[1])
                IN  /\ knowledge' = done.rows
                    /\ knowledge_seq' = done.seq
    /\ fetched' = IF response.redirected
                  THEN Append(fetched,
                              [session |-> tasks[i].session,
                               domain |-> Head(tasks[i].sources).domain,
                               redirect |-> TRUE,
                               url |-> Location(base_url(Head(tasks[i].sources),
                                                         tasks[i].topic))])
                  ELSE fetched
    /\ tasks' = [tasks EXCEPT ![i].pc = "sleeping"]
    /\ UNCHANGED <<trusted_sources, learning_sessions, learning_active>>
    /\ CrawlFrame

\* The loop of learn_from_web after asyncio.sleep(2): the next source, unless
\* the list is at its end or learning_active is false; then the finally clause.
next_source(i, out_end) ==
    /\ i <= Len(tasks)
    /\ tasks[i].pc = "sleeping"
    /\ LET t == [tasks[i] EXCEPT !.sources = Tail(tasks[i].sources)]
       IN  IF t.sources = << >> \/ ~learning_active
           THEN /\ end_learning_session(i, t, learning_sessions, out_end)
                /\ UNCHANGED fetched
           ELSE /\ crawl_source(i, t)
                /\ UNCHANGED <<learning_sessions, learning_active>>
    /\ UNCHANGED <<knowledge, knowledge_seq, trusted_sources>>
    /\ CrawlFrame

\* The responses of the sessions that are interleaved: a page that is stored,
\* or a request that raises.
CrawlResponses == {r \in Responses : r.raised \/ (r.text = PageClean /\ ~r.redirected)}

TaskStep(i) ==
    \/ \E out \in StorageOutcomes, out_end \in StorageOutcomes :
          learn_from_web(i, out, out_end)
    \/ \E response \in CrawlResponses, out \in StorageOutcomes :
          extract_and_store_knowledge(i, response, out)
    \/ \E out_end \in StorageOutcomes : next_source(i, out_end)

LearnNext ==
    \/ \E topic \in SessionTopics : start_learning(topic)
    \/ stop_learning
    \/ \E i \in TaskIds : TaskStep(i)

LearnSpec == FindInit /\ [][LearnNext]_vars

\* The event loop runs every task that can run.
LearnFairSpec == LearnSpec /\ \A i \in TaskIds : WF_vars(TaskStep(i))

\* Sessions one after another, with sources added and requests redirected.
SessionResponses == {r \in Responses : r.raised \/ r.text = PageClean}

SessionNext ==
    \/ \E topic \in SessionTopics : start_learning(topic)
    \/ \E row \in AddedSources : add_trusted_source(row)
    \/ \E i \in TaskIds, out \in StorageOutcomes, out_end \in StorageOutcomes :
          learn_from_web(i, out, out_end)
    \/ \E i \in TaskIds, response \in SessionResponses, out \in StorageOutcomes :
          extract_and_store_knowledge(i, response, out)
    \/ \E i \in TaskIds, out_end \in StorageOutcomes : next_source(i, out_end)

SessionSpec == FindInit /\ [][SessionNext]_vars

\* Sessions one after another, with every kind of page.
FilterResponses == {r \in Responses : ~r.redirected}

FilterTopics == {"AI"}

FilterNext ==
    \/ \E topic \in FilterTopics : start_learning(topic)
    \/ \E i \in TaskIds, out \in StorageOutcomes, out_end \in StorageOutcomes :
          learn_from_web(i, out, out_end)
    \/ \E i \in TaskIds, response \in FilterResponses, out \in StorageOutcomes :
          extract_and_store_knowledge(i, response, out)
    \/ \E i \in TaskIds, out_end \in StorageOutcomes : next_source(i, out_end)

FilterSpec == FindInit /\ [][FilterNext]_vars

(***************************************************************************)
(* Properties of chat_with_may.                                            *)
(***************************************************************************)
FullSteps == <<"retrieve", "compose", "extract", "score", "persist_turn">>

\* C1: chat_with_may never raises to its caller: for every message and store
\* state, a call in which a step fails (retrieval, composition, persisting the
\* turn, persisting the profile) gives the caller the fixed apology, and no
\* failure leaves the call.
C1_NeverRaises ==
    /\ last.outcome # "raised"
    /\ (last.outcome # "no_call" /\ last.error # "ok") =>
          /\ last.outcome = "apology"
          /\ last.sent = "apology"
          /\ last.response = NoReply

\* A call whose message is not text fails in retrieval, and a call fails in
\* persisting the profile after its turn was stored: both gave the apology.
C1_Witness ==
    /\ last.outcome = "apology"
    /\ last.error = "sqlite3.OperationalError"
    /\ last.steps = FullSteps
    /\ conversations # << >>

\* C2: across chat_with_may calls on a loaded profile whose interests start
\* without duplicates, the interests never shrink (a label present before a
\* step is present after it) and never hold a label twice.
C2_InterestsNeverShrink ==
    [][\A e \in Engines :
          profile[e] # NoProfile =>
             /\ profile'[e] # NoProfile
             /\ Range(profile[e].interests) \subseteq Range(profile'[e].interests)
             /\ NoDuplicates(profile'[e].interests)]_vars

\* Two calls on one engine each added a label to the one the profile had.
C2_Witness ==
    \E e \in Engines :
        /\ profile[e] # NoProfile
        /\ profile[e].interests = <<"work", "general", "family">>

C4_NoTurnRejected ==
    /\ last.error # "sqlite3.IntegrityError"
    /\ last.outcome = "reply" =>
          \E i \in 1..Len(conversations) : conversations[i].id = last.turn

\* C5: no operation changes or deletes a stored row: the rows a step finds in
\* conversations are there after it, field by field, and rows are only added.
C5_RowsOnlyGrow ==
    [][/\ Len(conversations') >= Len(conversations)
       /\ SubSeq(conversations', 1, Len(conversations)) = conversations]_vars

\* A second turn was stored after the first, and a read accessor ran.
C5_Witness ==
    /\ Len(conversations) = 2
    /\ last.sent = "memories"

\* C6: in a call that returns its reply, the steps are: retrieve, compose,
\* extract, score, persist the turn, then (with a profile loaded) persist the
\* profile; the history the reply was composed from does not hold the turn the
\* call stores; the reply returned is the may_response of that turn.
C6_StepOrder ==
    /\ last.outcome = "reply" =>
          /\ last.steps \in {FullSteps, FullSteps \o <<"persist_profile">>}
          /\ \E i \in 1..Len(conversations) :
                /\ conversations[i].id = last.turn
                /\ conversations[i].may_response = last.response
    /\ \A e \in Engines :
          /\ pc[e] = "generated" => cur[e].steps = <<"retrieve", "compose">>
          /\ pc[e] = "saved" =>
                /\ cur[e].steps = FullSteps
                /\ \A k \in 1..Len(cur[e].history) : cur[e].history[k].id # cur[e].turn
                /\ \E i \in 1..Len(conversations) :
                      /\ conversations[i].id = cur[e].turn
                      /\ conversations[i].may_response = cur[e].response
                      /\ \A k \in 1..Len(cur[e].history) :
                            cur[e].history[k].id # conversations[i].id

\* A call with a loaded profile returned a reply composed from a history of
\* one earlier turn.
C6_Witness ==
    /\ last.outcome = "reply"
    /\ last.steps = FullSteps \o <<"persist_profile">>
    /\ last.response.callback # << >>
    /\ Len(conversations) = 2

(***************************************************************************)
(* Properties of the signal extractor, the scorer and the retriever.       *)
(***************************************************************************)
\* The number of whitespace-separated words of a text: the places where a
\* word starts.
WordCount(text) ==
    Cardinality({i \in 1..Len(text) :
                   /\ text[i] \notin Whitespace
                   /\ (i = 1 \/ text[i - 1] \in Whitespace)})

Indicator(b) == IF b THEN 1 ELSE 0

RawImportance(m, topics, sentiment) ==
    5 + 2 * Indicator(sentiment \in {"positive", "negative"})
      + 2 * Indicator(Range(topics)
                        \cap {"family", "faith", "relationships", "health"} # {})
      + Indicator(\E i \in 1..Len(Text(m)) : Text(m)[i] = "?")
      + Indicator(WordCount(Text(m)) > 20)

\* C7: for every message, topic list and sentiment label, calculate_importance
\* returns 5, plus 2 for a positive or negative sentiment, plus 2 for a topic
\* among family, faith, relationships and health, plus 1 for a "?" in the
\* message, plus 1 for more than 20 whitespace-separated words, clamped to
\* [1,10]; the result is an integer in [1,10].
C7_Importance ==
    probe.op = "calculate_importance" =>
        LET raw == RawImportance(probe.message, probe.topics, probe.sentiment)
        IN  /\ probe.result = (IF raw > 10 THEN 10 ELSE IF raw < 1 THEN 1 ELSE raw)
            /\ probe.result \in 1..10

\* All four additions apply: the sum is 11 and the result 10.
C7_Witness ==
    /\ probe.op = "calculate_importance"
    /\ RawImportance(probe.message, probe.topics, probe.sentiment) = 11
    /\ probe.result = 10

\* The words of a list that occur in the text, each counted once.
PresentWords(words, text) ==
    Cardinality({k \in 1..Len(words) : Contains(Lower(text), words[k])})

\* The occurrences of the words of a list in the text, each place counted.
Occurrences(words, text) ==
    Cardinality({<<k, i>> \in (1..Len(words)) \X (1..Len(text)) :
                   /\ i + Len(words[k]) - 1 <= Len(text)
                   /\ SubSeq(Lower(text), i, i + Len(words[k]) - 1) = words[k]})

LabelOf(pos, neg) ==
    IF pos > neg THEN "positive" ELSE IF neg > pos THEN "negative" ELSE "neutral"

\* C8 (as amended): analyze_message_sentiment counts, for each list, the words
\* of the list that occur at least once as a substring of the lower-cased
\* message (a repeated word counts once), and returns positive if the positive
\* count is greater, negative if the negative count is greater, neutral on a
\* tie; equal nonzero counts give neutral, and words of one list only give that
\* list's label.
C8_SentimentByPresence ==
    probe.op = "analyze_message_sentiment" =>
        LET pos == PresentWords(positive_words, Text(probe.message))
            neg == PresentWords(negative_words, Text(probe.message))
        IN  /\ probe.result = LabelOf(pos, neg)
            /\ (pos = neg /\ pos > 0) => probe.result = "neutral"
            /\ (pos > 0 /\ neg = 0) => probe.result = "positive"
            /\ (neg > 0 /\ pos = 0) => probe.result = "negative"

\* "happy happy sad": two occurrences of a positive word, one of a negative
\* word, and the result is neutral.
C8_Witness ==
    /\ probe.op = "analyze_message_sentiment"
    /\ probe.message = <<"happy", "happy", "sad">>
    /\ probe.result = "neutral"

\* C8 (as stated): the occurrences of positive-list words and of negative-list
\* words in the lower-cased message are counted, and the greater count decides.
C8_SentimentByOccurrences ==
    probe.op = "analyze_message_sentiment" =>
        probe.result = LabelOf(Occurrences(positive_words, Text(probe.message)),
                               Occurrences(negative_words, Text(probe.message)))

Categories == <<"family", "work", "learning", "faith", "relationships", "health">>

KeywordsOf(category) ==
    CASE category = "family" -> keywords_family
      [] category = "work" -> keywords_work
      [] category = "learning" -> keywords_learning
      [] category = "faith" -> keywords_faith
      [] category = "relationships" -> keywords_relationships
      [] category = "health" -> keywords_health

HasKeyword(category, text) ==
    \E k \in 1..Len(KeywordsOf(category)) :
        Contains(Lower(text), KeywordsOf(category)[k])

\* C9: for every message, extract_topics returns the categories among family,
\* work, learning, faith, relationships, health with a keyword that is a
\* substring of the lower-cased message, in that order and without repeats;
\* with no such category (the empty message too) it returns ["general"]; the
\* result is never empty.
C9_Topics ==
    probe.op = "extract_topics" =>
        LET text == Text(probe.message)
            matching == SelectSeq(Categories, LAMBDA c : HasKeyword(c, text))
        IN  /\ matching # << >> => probe.result = matching
            /\ matching = << >> => probe.result = <<"general">>
            /\ NoDuplicates(probe.result)
            /\ probe.result # << >>

\* "job mom love": three categories, in the order of declaration.
C9_Witness ==
    /\ probe.op = "extract_topics"
    /\ probe.message = <<"job", "mom", "love">>
    /\ probe.result = <<"family", "work", "relationships">>

\* The stored turns of a topic: the primary topic is the topic, or the tags
\* contain it.
TurnsOf(rows, topic) ==
    {i \in 1..Len(rows) :
        rows[i].topic = topic \/ topic \in Range(rows[i].context_tags)}

\* Row a sorts strictly before row b.
Before(a, b) ==
    \/ a.importance > b.importance
    \/ a.importance = b.importance /\ a.timestamp > b.timestamp

\* idx lists turns of the topic (by their place in rows): different turns,
\* none before the one listed ahead of it, as many as the cap allows, and no
\* turn left out that sorts before a listed one.
IsListing(rows, topic, limit, idx) ==
    /\ \A k \in 1..Len(idx) : idx[k] \in TurnsOf(rows, topic)
    /\ NoDuplicates(idx)
    /\ Len(idx) = Min2(limit, Cardinality(TurnsOf(rows, topic)))
    /\ \A k \in 1..(Len(idx) - 1) : ~Before(rows[idx[k + 1]], rows[idx[k]])
    /\ \A j \in TurnsOf(rows, topic) \ Range(idx) :
          \A k \in 1..Len(idx) : ~Before(rows[j], rows[idx[k]])

\* The concatenations of one listing per topic, in the order of the topics.
RECURSIVE Listings(_, _, _)
Listings(rows, topics, limit) ==
    IF topics = << >> THEN {<< >>}
    ELSE {a \o b :
            a \in {idx \in SeqsUpTo(1..Len(rows), Min2(limit, Len(rows))) :
                     IsListing(rows, Head(topics), limit, idx)},
            b \in Listings(rows, Tail(topics), limit)}

SameTurn(memory, row) ==
    /\ memory.id = row.id
    /\ memory.user_message = row.user_message
    /\ memory.may_response = row.may_response
    /\ memory.topic = row.topic
    /\ memory.sentiment = row.sentiment
    /\ memory.importance = row.importance
    /\ memory.timestamp = row.timestamp
    /\ memory.context_tags = row.context_tags

\* C10: find_relevant_memories(message, limit) returns, for the message's
\* topics in extractor order, the stored turns of each topic (primary topic or
\* tag), ordered by importance descending then timestamp descending and capped
\* at limit, concatenated in topic order with duplicates kept, the whole
\* truncated to limit; the result has at most limit elements.
C10_Retrieval ==
    probe.op = "find_relevant_memories" =>
        /\ Len(probe.result) <= probe.limit
        /\ \E all \in Listings(conversations, TopicsOf(probe.message), probe.limit) :
              /\ Len(probe.result) = Min2(probe.limit, Len(all))
              /\ \A k \in 1..Len(probe.result) :
                    SameTurn(probe.result[k], conversations[all[k]])

\* A turn with both topics of the message is returned twice, and a later
\* turn of the second topic is cut off by the truncation.
C10_Witness ==
    /\ probe.op = "find_relevant_memories"
    /\ probe.limit = 2
    /\ Len(probe.result) = 2
    /\ probe.result[1].id = probe.result[2].id
    /\ Cardinality(TurnsOf(conversations, "work")) >= 2

(***************************************************************************)
(* Further properties of the retriever and the composer.                   *)
(***************************************************************************)
\* C11: with no rows in conversations, find_relevant_memories returns the
\* empty sequence for every message and every limit, and does not fail (it
\* has a result, and the empty sequence is the only one).
C11_EmptyStore ==
    conversations = << >> =>
        /\ \A m \in QueryMessages, limit \in 0..MaxLimit :
              find_relevant_memories(conversations, m, limit) = {<< >>}
        /\ probe.op = "find_relevant_memories" => probe.result = << >>

\* A message of two topics was looked up in the empty store, with room for
\* two turns.
C11_Witness ==
    /\ conversations = << >>
    /\ probe.op = "find_relevant_memories"
    /\ probe.message = <<"mom", "job">>
    /\ probe.limit = 2
    /\ probe.result = << >>

\* The places of the pieces of a kind in a text.
PlacesOf(text, kind) == {i \in 1..Len(text) : text[i].kind = kind}

\* C12: a reply of generate_thoughtful_response is, in this order, an optional
\* callback clause, exactly one core clause and an optional spark clause; the
\* callback clause appears only if the history is non-empty and the callback
\* draw is below 0.4, and names the topic of history[0]; the spark clause
\* appears exactly when its draw is below 0.3; the reply neither starts nor
\* ends with white space.
C12_ReplyStructure ==
    probe.op = "generate_thoughtful_response" =>
        LET text == ResponseText(probe.result)
            callbacks == PlacesOf(text, "topic")
            cores == PlacesOf(text, "template")
            sparks == PlacesOf(text, "spark")
        IN  /\ Cardinality(cores) = 1
            /\ Cardinality(callbacks) <= 1
            /\ Cardinality(sparks) <= 1
            /\ \A i \in callbacks, j \in cores : i < j
            /\ \A j \in cores, k \in sparks : j < k
            /\ \A k \in sparks : k = Len(text)
            /\ callbacks # {} =>
                  /\ probe.history # << >>
                  /\ probe.draws.callback < 40
                  /\ \A i \in callbacks : text[i].of = probe.history[1].topic
            /\ sparks # {} <=> probe.draws.spark < 30
            /\ text # << >>
            /\ Head(text) # Space
            /\ text[Len(text)] # Space

\* A reply with all three clauses, the core clause with its opener.
C12_Witness ==
    /\ probe.op = "generate_thoughtful_response"
    /\ probe.message = <<"sad", "job">>
    /\ PlacesOf(ResponseText(probe.result), "topic") # {}
    /\ PlacesOf(ResponseText(probe.result), "opener") # {}
    /\ PlacesOf(ResponseText(probe.result), "spark") # {}

\* C13: the composer is deterministic given its inputs: with the same
\* message, the same store contents, the same current time and the same
\* sequence of draws, supplied through an injectable randomness source, every
\* run returns the same reply: the reply of a run is the one the supplied
\* draws determine.
C13_ReplyOfSuppliedDraws ==
    probe.op = "generate_thoughtful_response" =>
        \A history \in find_relevant_memories(conversations, probe.message,
                                              DefaultLimit) :
            ResponseText(probe.result) =
                ResponseText(generate_thoughtful_response(probe.message, history,
                                                          probe.now, probe.supplied))

\* The reply of a run is the one its own draws determine, whichever order the
\* store gives to turns that sort equal.
TieOrderIrrelevant ==
    probe.op = "generate_thoughtful_response" =>
        \A history \in find_relevant_memories(conversations, probe.message,
                                              DefaultLimit) :
            ResponseText(probe.result) =
                ResponseText(generate_thoughtful_response(probe.message, history,
                                                          probe.now, probe.draws))

\* C14: round trip of a turn: after save_conversation has persisted a turn,
\* the stored turn with the greatest timestamp, read back as a
\* ConversationMemory, equals the persisted one in every field (identifier,
\* user message, reply, primary topic, sentiment, importance, timestamp,
\* context tags, referenced memories).
C14_RoundTrip ==
    [][Len(conversations') > Len(conversations) =>
        LET memory == conversations'[Len(conversations')]
            latest == {r \in Range(conversations') :
                         \A q \in Range(conversations') : q.timestamp <= r.timestamp}
        IN  \A r \in latest : RowToMemory(r) = memory]_vars

\* C15: every transport adapter (POST /chat, /ws, the bot's text handler)
\* handles a message by one call of chat_with_may and sends back what the call
\* returned; a call that returned a composed reply has persisted one turn.
C15_OneCallPerMessage ==
    last.sent \in {"reply", "apology", "error", "bot_error"} =>
        /\ last.outcome \in {"reply", "apology"}
        /\ last.sent = last.outcome
        /\ last.outcome = "reply" =>
               Cardinality({i \in 1..Len(conversations) :
                              conversations[i].id = last.turn}) = 1

\* C16: an empty message is not an error: when the store is available, a call
\* chat_with_may("") returns a composed reply, not the apology, and persists
\* one turn with topic general, context tags ["general"], sentiment neutral
\* and importance 5.
C16_EmptyMessage ==
    [][\A e \in Engines :
          (pc[e] # "idle" /\ pc'[e] = "idle" /\ cur[e].user_message = << >>
             /\ last'.error # "sqlite3.OperationalError")
          => /\ last'.outcome = "reply"
             /\ \E i \in 1..Len(conversations') :
                  /\ conversations'[i].id = last'.turn
                  /\ conversations'[i].user_message = << >>
                  /\ conversations'[i].topic = "general"
                  /\ conversations'[i].context_tags = <<"general">>
                  /\ conversations'[i].sentiment = "neutral"
                  /\ conversations'[i].importance = 5]_vars

\* The same for the calls that no step of which raised.
EmptyMessageUnlessIdTaken ==
    [][\A e \in Engines :
          (pc[e] # "idle" /\ pc'[e] = "idle" /\ cur[e].user_message = << >>
             /\ last'.error = "ok")
          => /\ last'.outcome = "reply"
             /\ \E i \in 1..Len(conversations') :
                  /\ conversations'[i].id = last'.turn
                  /\ conversations'[i].topic = "general"
                  /\ conversations'[i].context_tags = <<"general">>
                  /\ conversations'[i].sentiment = "neutral"
                  /\ conversations'[i].importance = 5]_vars

\* The table knowledge holds at most one row per content hash.
OneItemPerHash ==
    \A i, j \in 1..Len(knowledge) :
        knowledge[i].content_hash = knowledge[j].content_hash => i = j

C18_InterestsAccumulate ==
    [][\A e \in Engines :
          profile[e] # NoProfile =>
             /\ profile'[e] # NoProfile
             /\ Range(profile[e].interests) \subseteq Range(profile'[e].interests)]_vars

\* C19: the profile step of a call that returns its reply: with a profile
\* loaded, the interests are the previous ones followed by the topics of the
\* message that were not among them, in the extractor's order, the last
\* interaction is the time of the call, and the stored row of that name, read
\* back, equals the profile in memory; with no profile loaded, none is
\* created and the table user_profile stays as it was.
C19_ProfileStep ==
    [][\A e \in Engines :
          (pc[e] = "saved" /\ pc'[e] = "idle" /\ last'.outcome = "reply") =>
             IF profile[e] # NoProfile
             THEN LET topics == TopicsOf(cur[e].user_message)
                      fresh == SelectSeq(topics,
                                 LAMBDA t : t \notin Range(profile[e].interests))
                      name == profile[e].name
                  IN  /\ profile'[e].interests = profile[e].interests \o fresh
                      /\ profile'[e].last_interaction = now
                      /\ name \in DOMAIN user_profile'
                      /\ RowToProfile(user_profile'[name]) = profile'[e]
             ELSE /\ profile'[e] = NoProfile
                  /\ user_profile' = user_profile]_vars

\* A call at a later time added the topic of its message to the profile and
\* stored it.
C19_Witness ==
    /\ last.outcome = "reply"
    /\ last.transport = "http"
    /\ last.steps = FullSteps \o <<"persist_profile">>
    /\ profile["web"] # NoProfile
    /\ profile["web"].interests = <<"work", "family">>
    /\ profile["web"].last_interaction = 1
    /\ user_profile["Al"] = profile["web"]

\* Name, values, conversation_patterns and relationship_level of two profiles
\* agree.
SameFixedFields(p, q) ==
    /\ p.name = q.name
    /\ p.values = q.values
    /\ p.conversation_patterns = q.conversation_patterns
    /\ p.relationship_level = q.relationship_level

\* C20: no step of a chat_with_may call changes name, values,
\* conversation_patterns or relationship_level of the loaded profile, in
\* memory or in the stored row: after every sequence of calls they are as
\* before it.
C20_FixedFields ==
    [][/\ \A e \in Engines :
            profile[e] # NoProfile =>
               profile'[e] # NoProfile /\ SameFixedFields(profile[e], profile'[e])
       /\ \A n \in DOMAIN user_profile :
            /\ n \in DOMAIN user_profile'
            /\ SameFixedFields(user_profile[n], user_profile'[n])]_vars

\* Two calls have written the profile row, which gained two interests and
\* kept its other fields.
C20_Witness ==
    /\ \A e \in Engines : pc[e] = "idle"
    /\ Len(conversations) = 2
    /\ last.steps = FullSteps \o <<"persist_profile">>
    /\ "Al" \in DOMAIN user_profile
    /\ user_profile["Al"].interests = <<"work", "general", "family">>
    /\ SameFixedFields(user_profile["Al"], InitialProfile(<<"work">>))
    /\ SameFixedFields(profile["web"], InitialProfile(<<"work">>))

\* The labels extract_topics may give.
TopicLabels ==
    {"family", "work", "learning", "faith", "relationships", "health", "general"}

\* C21: every row save_conversation persisted is well formed: its sentiment
\* is positive, negative or neutral, its importance an integer from 1 to 10,
\* its context tags a non-empty list of topic labels, and its primary topic
\* the first context tag.
C21_RowsWellFormed ==
    \A i \in 1..Len(conversations) :
        LET row == conversations[i] IN
        /\ row.sentiment \in {"positive", "negative", "neutral"}
        /\ row.importance \in 1..10
        /\ row.context_tags # << >>
        /\ Range(row.context_tags) \subseteq TopicLabels
        /\ row.topic = row.context_tags[1]

\* A stored turn about family and work, of negative sentiment.
C21_Witness ==
    \E i \in 1..Len(conversations) :
        /\ conversations[i].context_tags = <<"family", "work">>
        /\ conversations[i].sentiment = "negative"
        /\ conversations[i].importance = 9

\* The phrase of n whole elapsed days, n not negative.
PhraseOfDays(n) ==
    IF n = 0 THEN "earlier today"
    ELSE IF n = 1 THEN "yesterday"
    ELSE IF n \in 2..6 THEN "{n} days ago"
    ELSE "recently"

\* C22: the time phrase of the callback clause is a function of the whole
\* elapsed days n between now and the timestamp of history[0]: earlier today
\* for 0, yesterday for 1, n days ago for 2 to 6, recently for 7 or more; and
\* one of these four cases applies to every turn the system stored earlier.
C22_TimePhrase ==
    (probe.op = "generate_thoughtful_response" /\ probe.result.callback # << >>) =>
        LET n == DaysAgo(probe.now, probe.history[1].timestamp)
            time_ref == probe.result.callback[1].time_ref
        IN  /\ n >= 0
            /\ time_ref.phrase = PhraseOfDays(n)
            /\ time_ref.phrase = "{n} days ago" => time_ref.n = n

\* The same for the turns whose timestamp is not after the clock reading.
TimePhraseClockNotBack ==
    (/\ probe.op = "generate_thoughtful_response"
     /\ probe.result.callback # << >>
     /\ probe.history[1].timestamp <= probe.now) =>
        LET n == DaysAgo(probe.now, probe.history[1].timestamp)
            time_ref == probe.result.callback[1].time_ref
        IN  /\ n >= 0
            /\ time_ref.phrase = PhraseOfDays(n)
            /\ time_ref.phrase = "{n} days ago" => time_ref.n = n

\* C23: the template of the core clause comes from the pool of topics[0] when
\* that is family, faith, work or learning, and from the generic pool
\* otherwise (also for an empty topic list); a negative sentiment prepends
\* one of the three supportive openers, a positive sentiment one of the three
\* encouraging openers, a neutral sentiment nothing.
C23_CoreClause ==
    probe.op = "generate_core_response" =>
        LET core == probe.result
            topics == probe.topics
            pool == IF topics # << >>
                       /\ topics[1] \in {"family", "faith", "work", "learning"}
                    THEN topics[1] ELSE "generic"
            text == CoreText(core)
            template == text[Len(text)]
        IN  /\ template = Piece("template", pool, template.idx)
            /\ template.idx \in 1..3
            /\ probe.sentiment = "negative" =>
                 /\ Len(text) = 3
                 /\ text[1] = Piece("opener", "supportive", text[1].idx)
                 /\ text[1].idx \in 1..3
                 /\ text[2] = Space
            /\ probe.sentiment = "positive" =>
                 /\ Len(text) = 3
                 /\ text[1] = Piece("opener", "encouraging", text[1].idx)
                 /\ text[1].idx \in 1..3
                 /\ text[2] = Space
            /\ probe.sentiment = "neutral" => Len(text) = 1

\* A negative message about health and work: the third supportive opener and
\* a generic template.
C23_Witness ==
    /\ probe.op = "generate_core_response"
    /\ probe.topics = <<"health", "work">>
    /\ probe.sentiment = "negative"
    /\ probe.result.opener = [kind |-> "supportive", idx |-> 3]
    /\ probe.result.template.pool = "generic"

\* ---------------------------------------------------------------------------
ActiveRows == {trusted_sources[i] : i \in {j \in 1..Len(trusted_sources) :
                                             trusted_sources[j].active = 1}}

CategoryMatches(row, topic) ==
    \/ \E c \in Range(row.topic_categories) :
          Lower(WordChars[c]) = Lower(WordChars[topic])
    \/ "general" \in Range(row.topic_categories)

\* Every request is made for a relevant source.
FetchedForRelevantSources ==
    \A a \in 1..Len(fetched) :
       \E row \in ActiveRows :
          /\ row.domain = fetched[a].domain
          /\ CategoryMatches(row, learning_sessions[fetched[a].session].topic)

\* One URL per source and session.
OneFetchPerSource ==
    \A a, b \in 1..Len(fetched) :
       (fetched[a].session = fetched[b].session
        /\ fetched[a].domain = fetched[b].domain) => a = b

\* What holds of the requests the crawler itself names: one per source and
\* session.
OneCrawlPerSource ==
    \A a, b \in 1..Len(fetched) :
       (/\ fetched[a].session = fetched[b].session
        /\ fetched[a].domain = fetched[b].domain
        /\ ~fetched[a].redirect
        /\ ~fetched[b].redirect) => a = b

FetchedHostsTrusted ==
    \A a \in 1..Len(fetched) :
       \E row \in ActiveRows : WordChars[row.domain] = HostOf(fetched[a].url)

\* The hosts of the URLs the crawler itself names, redirects aside.
CrawledHostsTrusted ==
    \A a \in 1..Len(fetched) :
       ~fetched[a].redirect =>
          \E row \in ActiveRows : WordChars[row.domain] = HostOf(fetched[a].url)

\* C24: in a learning session the crawler requests at most one URL per
\* relevant source and follows no links; every source it requests for is an
\* active row of trusted_sources whose categories hold the session's topic,
\* letter case aside, or hold general; and the host of every URL requested is
\* the domain of an active trusted source.
C24_CrawlStaysOnTrustedSources ==
    /\ OneFetchPerSource
    /\ FetchedForRelevantSources
    /\ FetchedHostsTrusted

\* A session that asked two sources, one of them through the Wikipedia URL.
C24_TwoSourcesFetched ==
    \E a, b \in 1..Len(fetched) :
       /\ a # b
       /\ fetched[a].session = fetched[b].session
       /\ fetched[a].domain = "en.wikipedia.org"
       /\ Len(fetched[a].url) > Len(WordChars["https://en.wikipedia.org/wiki/"])

\* ---------------------------------------------------------------------------
RunningTasks == {i \in 1..Len(tasks) : Running(tasks[i])}

\* C25: at most one learning session is in progress at any time: never are two
\* executions of learn_from_web both between start_learning_session and
\* end_learning_session, whatever the interleaving of /start_learning,
\* /stop_learning and the running tasks of one engine.
C25_OneSessionInProgress == Cardinality(RunningTasks) <= 1

\* Two sessions are in progress only when /stop_learning met the earlier one.
TwoSessionsOnlyAfterStop ==
    \A i, j \in RunningTasks : i # j => (tasks[i].stopped \/ tasks[j].stopped)

\* ---------------------------------------------------------------------------
\* The step in which the call of engine e ends in the except clause.
ApologyStep(e) ==
    /\ pc[e] # "idle"
    /\ pc'[e] = "idle"
    /\ last'.outcome = "apology"

\* C26: a call of chat_with_may that returns the apology leaves the persistent
\* and the in-memory state as they were before the call: it added no turn, the
\* stored user_profile row is as before, and the engine's in-memory profile
\* (interests, last interaction) equals what it was.
C26_ApologyLeavesStateUnchanged ==
    [][\A e \in Engines :
          ApologyStep(e) =>
             /\ cur[e].turn = NoTurn
             /\ profile'[e] = profile[e]
             /\ user_profile' = user_profile]_vars

\* An apology for a failure before the turn is persisted changes nothing.
EarlyApologyLeavesStateUnchanged ==
    [][\A e \in Engines :
          (ApologyStep(e) /\ cur[e].turn = NoTurn) =>
             /\ conversations' = conversations
             /\ profile' = profile
             /\ user_profile' = user_profile]_vars

\* ---------------------------------------------------------------------------
Approved(rows) ==
    {rows[i].content_hash : i \in {j \in 1..Len(rows) :
                                     /\ rows[j].validation_status = "validated"
                                     /\ rows[j].human_approved = 1}}

\* C27: an item approve_knowledge has marked validated and human-approved
\* keeps that status in every later state, also after a later learning
\* session stores the same content again.
C27_ApprovalIsKept == [][Approved(knowledge) \subseteq Approved(knowledge')]_vars

\* Storing other content, and the passing of time, keep every approval.
ApprovalKeptByOtherContent ==
    [][\A h \in Approved(knowledge) :
          h \in Approved(knowledge')
          \/ \E i \in 1..Len(knowledge') :
                /\ knowledge'[i].content_hash = h
                /\ knowledge'[i].id = knowledge_seq'
                /\ knowledge_seq' = knowledge_seq + 1]_vars

\* ---------------------------------------------------------------------------
Recorded(id) == id <= Len(learning_sessions)

Ended(id) ==
    /\ Recorded(id)
    /\ learning_sessions[id].status = "completed"
    /\ learning_sessions[id].end_time # None

\* C28: every session start_learning_session has recorded is ended in the
\* end, given that each page request returns or fails: end_learning_session
\* runs for it, its row gets the status completed and an end time, and
\* learning_active becomes false.
C28_EverySessionEnds ==
    /\ \A id \in TaskIds : Recorded(id) ~> Ended(id)
    /\ [][\A id \in TaskIds :
             (~Ended(id) /\ Ended(id)') => ~learning_active']_vars

\* The task of a session left end_learning_session by the UPDATE's exception.
EndRaised(id) ==
    \E i \in 1..Len(tasks) : tasks[i].session = id /\ tasks[i].pc = "raised"

\* Every session is ended, or its end_learning_session has raised.
EverySessionEndsUnlessEndRaised ==
    /\ \A id \in TaskIds : Recorded(id) ~> (Ended(id) \/ EndRaised(id))
    /\ [][\A id \in TaskIds :
             (~Ended(id) /\ Ended(id)') => ~learning_active']_vars

\* ---------------------------------------------------------------------------
\* Task i begins the crawl of a further source in this step.
BeginsFurtherCrawl(i) ==
    /\ tasks[i].pc = "sleeping"
    /\ tasks'[i].pc = "fetching"

\* C29: once /stop_learning has been handled while a session is running, that
\* session begins no crawl of a further source: at most the crawl in progress
\* finishes, and the session ends without a request to any remaining source.
C29_NoCrawlAfterStop ==
    [][\A i \in 1..Len(tasks) : tasks[i].stopped => ~BeginsFurtherCrawl(i)]_vars

\* A stopped session goes on only when a later session has been recorded.
CrawlAfterStopOnlyWithLaterSession ==
    [][\A i \in 1..Len(tasks) :
          (tasks[i].stopped /\ BeginsFurtherCrawl(i)) =>
             Len(learning_sessions) > tasks[i].session]_vars

\* ---------------------------------------------------------------------------
\* The content holds keyword, letter case aside.
HoldsKeyword(content, keyword) ==
    LET lowered == SubSeq(Lower(content), 1, Len(content))
    IN  Contains(lowered, Lower(WordChars[keyword]))

\* C30: every knowledge item a learning session has written passed the
\* content filter when it was stored: its content is not empty, is at most
\* 1000 characters long, and holds, letter case aside, none of the active
\* filter keywords.
C30_StoredContentPassedFilter ==
    \A i \in 1..Len(knowledge) :
       /\ Len(knowledge[i].content) > 0
       /\ Len(knowledge[i].content) <= 1000
       /\ \A keyword \in content_filters :
             ~HoldsKeyword(knowledge[i].content, keyword)

\* A page of more than 1000 characters was cut and stored, and a session that
\* met a page with a keyword has ended.
C30_Witness ==
    /\ \E i \in 1..Len(knowledge) : Len(knowledge[i].content) = 1000
    /\ \E i \in 1..Len(knowledge) : Len(knowledge[i].content) = MinTextLen + 1
    /\ \E i \in 1..Len(tasks) : tasks[i].pc = "ended"
=============================================================================
